---- MODULE Spec2Model ----
(***************************************************************************)
(* Model of the experiment execution engine of ebilab                      *)
(* (src/ebilab/core/service.py, ExperimentService) together with the row   *)
(* writer it drives (src/ebilab/core/data_saver.py, ExperimentDataSaver).  *)
(*                                                                         *)
(* Two threads act on the service object:                                  *)
(*   - the caller's thread, which runs start_experiment, stop_experiment   *)
(*     and sync one call at a time (cpc is its position inside a call);    *)
(*   - the asyncio loop thread of a run, which runs _run_lifecycle, the    *)
(*     _run_steps task and _shutdown_after_delay (lifecycle.pc, task.pc).  *)
(* A third, short-lived thread is the shutdown_thread helper started by    *)
(* _shutdown_after_delay.                                                  *)
(* The attributes of the service are plain Python attributes, so every     *)
(* statement that reads or writes one is a separate step and the threads   *)
(* interleave between statements.                                          *)
(*                                                                         *)
(* Spec is the engine under start, stop and sync calls on a disk that      *)
(* works.  The other specifications add one thing each: a write that fails *)
(* (SpecWriteFailure), a consumer polling the data channel (SpecChannel),  *)
(* shutdown() calls (SpecShutdown, and SpecTeardown without sync calls),   *)
(* registered status callbacks (SpecCallbacks).  SpecConstruct is the      *)
(* constructor of BaseExperiment on its own, SpecSaver an                  *)
(* ExperimentDataSaver on its own with the comment edit of the history     *)
(* manager (src/ebilab/core/history.py), SpecOptions the constructor of    *)
(* ClassWithOption (src/ebilab/analysis2/base.py), SpecRecorder a          *)
(* VideoRecorder on its own (src/ebilab/core/video_recorder.py), and       *)
(* SpecStartShutdown the engine under a caller that starts runs and shuts  *)
(* the service down without calling stop().                                *)
(*                                                                         *)
(* time.sleep(0.1) in start_experiment ("Wait for the thread to fully      *)
(* start") is taken to be long enough for run_loop to have stored the new  *)
(* loop in self.loop, so the creation of the thread and the assignment of  *)
(* self.loop are one step.                                                 *)
(***************************************************************************)
EXTENDS Integers, Sequences, FiniteSets, TLC

\* accepted starts (runs) explored
MaxRuns == 2
\* rows one procedure yields at most
MaxRows == 2
\* option names a procedure class declares or a parameter mapping holds
MaxOptions == 3
\* status callbacks registered by the client
MaxCallbacks == 2
\* frames a loop of the video recorder handles after a start
MaxFrames == 2

VARIABLES
    self,         \* the attributes of the ExperimentService object
    queue,        \* content of the queue.Queue self.data_queue refers to
    event,        \* state of the threading.Event self.stop_event refers to
    csv,          \* the row file of the ExperimentDataSaver created last
    run,          \* number of experiment threads created so far
    loops_running,\* event loops whose run_forever has not been stopped
    shutdown_threads, \* shutdown_thread helpers started and not yet run
    cpc,          \* position of the caller's thread
    lifecycle,    \* the _run_lifecycle coroutine: pc, exp, loop
    task,         \* the _run_steps task of that lifecycle: pc, result
    cancel_pending, \* a _steps_task.cancel callback queued on the loop
    obs,          \* observations of the current run and of the calls made
    experiment,   \* a BaseExperiment under construction, taken on its own
    saver,        \* an ExperimentDataSaver and its two files, taken on
                  \* their own
    process,      \* a ClassWithOption under construction, taken on its own
    recorder      \* a VideoRecorder and its two threads, taken on their own

vars == <<self, queue, event, csv, run, loops_running, shutdown_threads,
          cpc, lifecycle, task, cancel_pending, obs, experiment, saver,
          process, recorder>>

\* ExperimentStatus
IDLE == "IDLE"
RUNNING == "RUNNING"
STOPPING == "STOPPING"
FINISHED == "FINISHED"
ERROR == "ERROR"
ExperimentStatus == {IDLE, RUNNING, STOPPING, FINISHED, ERROR}

\* an attribute holding None; objects are identified by the run that made them
None == 0
NoError == "None"

\* no row file and no metadata sidecar: before the first run, and in a
\* debug-mode run
NoFile == [header |-> FALSE, rows |-> <<>>, open |-> FALSE,
           metadata |-> FALSE]

\* observations reset when a new run is accepted; prev_synced tells that the
\* service still holds the sync reference of an earlier run, and is kept
\* until the first row of the new run has been put on the channel
NewRunObs(o) ==
    [o EXCEPT !.setup_attempted = FALSE, !.setup_raised = FALSE,
              !.teardowns = 0, !.teardown_raised = FALSE,
              !.produced = 0, !.steps_raised = FALSE,
              !.stop_called_k = -1, !.stop_k = -1, !.cancelled = FALSE,
              !.write_failed = FALSE, !.start_raised = FALSE,
              !.begun_early = FALSE, !.started_debug = FALSE,
              !.stop_seen = FALSE,
              !.prev_synced = self.last_sync_time,
              !.synced = FALSE, !.sync_t = "none"]

\* no BaseExperiment has been constructed
NoExperiment == [fields |-> {}, options |-> <<>>, attrs |-> <<>>,
                 raised |-> FALSE]

\* no metadata sidecar: the keys of the JSON object, its "columns" and its
\* "comment"
NoMetadata == [keys |-> {}, columns |-> <<>>, comment |-> ""]
\* no ExperimentDataSaver has been constructed on its own, and neither a
\* row file (csv: its lines) nor a metadata sidecar exists; called and data
\* are the method called last and the row it was given
NoSaver == [made |-> FALSE, columns |-> <<>>, csv_file |-> FALSE,
            csv |-> <<>>, metadata |-> NoMetadata,
            called |-> "none", data |-> <<>>]

\* no ClassWithOption has been constructed: the option attributes the class
\* declares, whether it defines an explicit options dict and the keys of
\* that dict, the mapping given, what get_options returned, the attributes
\* of the instance, and whether the constructor raised ValueError
NoProcess == [made |-> FALSE, declared |-> {}, explicit |-> FALSE,
              options |-> {}, kwargs |-> <<>>, got |-> {}, attrs |-> <<>>,
              raised |-> FALSE]

\* video_recorder.py 41-60: VideoRecorder.__init__; preview_thread and
\* recording_thread are the state of the thread each attribute refers to, pc
\* the position of the caller's thread inside a method of the recorder,
\* preview_queue the number of frames waiting in the queue, previewed and
\* written the frames put on the queue and written to the file since the
\* last start
NoRecorder == [is_recording |-> FALSE, is_previewing |-> FALSE,
               stop_event |-> FALSE, capture |-> FALSE, writer |-> FALSE,
               preview_thread |-> "none", recording_thread |-> "none",
               pc |-> "idle", preview_queue |-> 0, previewed |-> 0,
               written |-> 0]

\* service.py 33-63: ExperimentService.__init__
InitService ==
    /\ self = [status |-> IDLE,
               debug_mode |-> FALSE,
               experiment_active |-> FALSE,
               last_error |-> NoError,
               last_sync_time |-> FALSE,
               data_queue |-> None,
               stop_event |-> None,
               steps_task |-> None,
               loop |-> None,
               data_saver |-> None,
               experiment_logger_manager |-> FALSE,
               current_experiment_instance |-> None,
               status_callbacks |-> 0]
    /\ queue = <<>>
    /\ event = FALSE
    /\ csv = NoFile
    /\ run = 0
    /\ loops_running = {}
    /\ shutdown_threads = 0
    /\ cpc = "idle"
    /\ lifecycle = [pc |-> "none", exp |-> None, loop |-> None]
    /\ task = [pc |-> "none", result |-> "none"]
    /\ cancel_pending = FALSE
    /\ obs = [start_entry |-> IDLE, scheduled |-> 0,
              setup_attempted |-> FALSE, setup_raised |-> FALSE,
              teardowns |-> 0, teardown_raised |-> FALSE,
              produced |-> 0, steps_raised |-> FALSE,
              stop_called_k |-> -1, stop_k |-> -1, cancelled |-> FALSE,
              write_failed |-> FALSE, start_raised |-> FALSE,
              begun_early |-> FALSE, started_debug |-> FALSE,
              stop_seen |-> FALSE,
              prev_synced |-> FALSE,
              synced |-> FALSE, sync_t |-> "none",
              consumed |-> <<>>, in_shutdown |-> FALSE,
              caller_cb |-> 0, loop_cb |-> 0, callback_raised |-> FALSE]

Init ==
    /\ InitService
    /\ experiment = NoExperiment
    /\ saver = NoSaver
    /\ process = NoProcess
    /\ recorder = NoRecorder

----------------------------------------------------------------------------
(* The caller's thread: start_experiment                                   *)

\* start_experiment_entry with the channel and the flag replaced before the
\* status is looked at
start_experiment_entry_realloc(d) ==
    /\ cpc = "idle"
    /\ self.status = RUNNING \/ run < MaxRuns
    /\ self' = [self EXCEPT !.debug_mode = d]
    /\ queue' = <<>>
    /\ event' = FALSE
    /\ obs' = [obs EXCEPT !.start_entry = self.status]
    /\ cpc' = IF self.status = RUNNING THEN "start_rejected" ELSE "start_thread"
    /\ UNCHANGED <<experiment, saver, process, recorder>>
    /\ UNCHANGED <<csv, run, loops_running, shutdown_threads,
                   lifecycle, task, cancel_pending>>

\* service.py 166-169: store debug_mode, refuse while RUNNING
start_experiment_entry(d) ==
    /\ cpc = "idle"
    /\ self.status = RUNNING \/ run < MaxRuns
    /\ self' = [self EXCEPT !.debug_mode = d]
    /\ obs' = [obs EXCEPT !.start_entry = self.status]
    /\ cpc' = IF self.status = RUNNING THEN "start_rejected" ELSE "start_thread"
    /\ UNCHANGED <<experiment, saver, process, recorder>>
    /\ UNCHANGED <<queue, event, csv, run, loops_running, shutdown_threads,
                   lifecycle, task, cancel_pending>>

\* service.py 168-169: logger.warning("Experiment is already running."); return
start_experiment_rejected ==
    /\ cpc = "start_rejected"
    /\ cpc' = "idle"
    /\ obs' = [obs EXCEPT !.start_entry = IDLE]
    /\ UNCHANGED <<experiment, saver, process, recorder>>
    /\ UNCHANGED <<self, queue, event, csv, run, loops_running,
                   shutdown_threads, lifecycle, task, cancel_pending>>

\* service.py 171-172 and _start_experiment_thread 77-93
start_experiment_thread ==
    /\ cpc = "start_thread"
    /\ IF self.experiment_active
       THEN /\ cpc' = "start_failed"
            /\ UNCHANGED <<self, run, loops_running, obs>>
       ELSE /\ run' = run + 1
            /\ loops_running' = loops_running \cup {run + 1}
            /\ self' = [self EXCEPT !.loop = run + 1,
                                    !.experiment_active = TRUE]
            /\ obs' = [NewRunObs(obs) EXCEPT !.start_entry = IDLE]
            /\ cpc' = "start_status"
    /\ UNCHANGED <<experiment, saver, process, recorder>>
    /\ UNCHANGED <<queue, event, csv, shutdown_threads, lifecycle, task,
                   cancel_pending>>

\* service.py 173-174: logger.error("Failed to start experiment thread"); return
start_experiment_failed ==
    /\ cpc = "start_failed"
    /\ cpc' = "idle"
    /\ obs' = [obs EXCEPT !.start_entry = IDLE]
    /\ UNCHANGED <<experiment, saver, process, recorder>>
    /\ UNCHANGED <<self, queue, event, csv, run, loops_running,
                   shutdown_threads, lifecycle, task, cancel_pending>>

\* service.py 149-153
set_status(s, st) == [s EXCEPT !.status = st]

\* service.py 151-153, 143: _set_status goes through the body of the for
\* loop of _notify_status_change (the status differs and a callback is
\* registered)
notifies(s, st) == s.status # st /\ s.status_callbacks > 0

\* service.py 176-180: clear the last error, RUNNING
start_experiment_status ==
    /\ cpc = "start_status"
    /\ self' = set_status([self EXCEPT !.last_error = NoError], RUNNING)
    /\ cpc' = IF notifies(self, RUNNING) THEN "start_notify" ELSE "start_alloc"
    /\ UNCHANGED <<experiment, saver, process, recorder>>
    /\ UNCHANGED <<queue, event, csv, run, loops_running, shutdown_threads,
                   lifecycle, task, cancel_pending, obs>>

\* start_experiment_alloc that keeps the threading.Event of the last run
start_experiment_alloc_reuse ==
    /\ cpc = "start_alloc"
    /\ self' = [self EXCEPT !.data_queue = run, !.stop_event = run]
    /\ queue' = <<>>
    /\ event' = event
    /\ obs' = [obs EXCEPT !.consumed = <<>>]
    /\ cpc' = "start_instance"
    /\ UNCHANGED <<experiment, saver, process, recorder>>
    /\ UNCHANGED <<csv, run, loops_running, shutdown_threads, lifecycle, task,
                   cancel_pending>>

\* service.py 182-184: a new queue.Queue and a new threading.Event
start_experiment_alloc ==
    /\ cpc = "start_alloc"
    /\ self' = [self EXCEPT !.data_queue = run, !.stop_event = run]
    /\ queue' = <<>>
    /\ event' = FALSE
    /\ obs' = [obs EXCEPT !.consumed = <<>>]
    /\ cpc' = "start_instance"
    /\ UNCHANGED <<experiment, saver, process, recorder>>
    /\ UNCHANGED <<csv, run, loops_running, shutdown_threads, lifecycle, task,
                   cancel_pending>>

\* data_saver.py 151-176: open the row file and write the header
start_writing(f) ==
    IF f.open THEN f
    ELSE [f EXCEPT !.header = TRUE, !.rows = <<>>, !.open = TRUE]

\* data_saver.py 127-149: write the metadata sidecar next to the row file
save_metadata(f) == [f EXCEPT !.metadata = TRUE]

\* start_experiment_instance with _setup_experiment_logging creating the
\* per-run log file handlers in either mode
start_experiment_instance_logged ==
    /\ cpc = "start_instance"
    /\ IF ~self.debug_mode
       THEN /\ self' = [self EXCEPT !.current_experiment_instance = run,
                                    !.data_saver = run,
                                    !.experiment_logger_manager = TRUE]
            /\ csv' = save_metadata(start_writing(NoFile))
            /\ obs' = obs
       ELSE /\ self' = [self EXCEPT !.current_experiment_instance = run,
                                    !.data_saver = None,
                                    !.experiment_logger_manager = TRUE]
            /\ csv' = NoFile
            /\ obs' = [obs EXCEPT !.started_debug = TRUE]
    /\ cpc' = "start_schedule"
    /\ UNCHANGED <<experiment, saver, process, recorder>>
    /\ UNCHANGED <<queue, event, run, loops_running, shutdown_threads,
                   lifecycle, task, cancel_pending>>

\* service.py 186-197, _setup_data_saving 208-227,
\* _setup_experiment_logging 229-248; a debug-mode run has no row file, no
\* metadata sidecar and no log file handlers (obs.started_debug)
start_experiment_instance ==
    /\ cpc = "start_instance"
    /\ IF ~self.debug_mode
       THEN /\ self' = [self EXCEPT !.current_experiment_instance = run,
                                    !.data_saver = run,
                                    !.experiment_logger_manager = TRUE]
            /\ csv' = save_metadata(start_writing(NoFile))
            /\ obs' = obs
       ELSE /\ self' = [self EXCEPT !.current_experiment_instance = run,
                                    !.data_saver = None,
                                    !.experiment_logger_manager = FALSE]
            /\ csv' = NoFile
            /\ obs' = [obs EXCEPT !.started_debug = TRUE]
    /\ cpc' = "start_schedule"
    /\ UNCHANGED <<experiment, saver, process, recorder>>
    /\ UNCHANGED <<queue, event, run, loops_running, shutdown_threads,
                   lifecycle, task, cancel_pending>>

\* service.py 186: experiment_cls(params) raises; the exception leaves
\* start_experiment
start_experiment_init_raises ==
    /\ cpc = "start_instance"
    /\ cpc' = "idle"
    /\ obs' = [obs EXCEPT !.start_raised = TRUE]
    /\ UNCHANGED <<experiment, saver, process, recorder>>
    /\ UNCHANGED <<self, queue, event, csv, run, loops_running,
                   shutdown_threads, lifecycle, task, cancel_pending>>

\* service.py 211-214, data_saver.py 170-176: start_writing() cannot open the
\* row file and re-raises; the exception leaves start_experiment
start_experiment_open_raises ==
    /\ cpc = "start_instance"
    /\ ~self.debug_mode
    /\ self' = [self EXCEPT !.current_experiment_instance = run,
                            !.data_saver = run]
    /\ csv' = NoFile
    /\ cpc' = "idle"
    /\ obs' = [obs EXCEPT !.start_raised = TRUE]
    /\ UNCHANGED <<experiment, saver, process, recorder>>
    /\ UNCHANGED <<queue, event, run, loops_running, shutdown_threads,
                   lifecycle, task, cancel_pending>>

\* data_saver.py 144-149: opening the sidecar or json.dump (a parameter value
\* that is not JSON serialisable) raises inside save_metadata; the except
\* clause logs the exception and save_metadata returns normally
save_metadata_failing(f) == f

\* service.py 186-197 when the sidecar cannot be written: save_metadata has
\* swallowed the exception and start_experiment goes on
start_experiment_instance_metadata_fails ==
    /\ cpc = "start_instance"
    /\ ~self.debug_mode
    /\ self' = [self EXCEPT !.current_experiment_instance = run,
                            !.data_saver = run,
                            !.experiment_logger_manager = TRUE]
    /\ csv' = save_metadata_failing(start_writing(NoFile))
    /\ cpc' = "start_schedule"
    /\ UNCHANGED <<experiment, saver, process, recorder>>
    /\ UNCHANGED <<queue, event, run, loops_running, shutdown_threads,
                   lifecycle, task, cancel_pending, obs>>

\* the _run_lifecycle coroutine scheduled last has begun (service.py 323)
\* and has not got through the await exp.cleanup() of its finally block
\* (service.py 349-352)
teardown_outstanding ==
    lifecycle.pc \in {"setup", "spawn", "await", "except", "error",
                      "error_notify", "finally", "cleanup"}

\* service.py 199-206: asyncio.run_coroutine_threadsafe(_run_lifecycle, loop)
start_experiment_schedule ==
    /\ cpc = "start_schedule"
    /\ lifecycle' = [pc |-> "scheduled",
                     exp |-> self.current_experiment_instance,
                     loop |-> self.loop]
    /\ task' = [pc |-> "none", result |-> "none"]
    /\ cancel_pending' = FALSE
    /\ obs' = [obs EXCEPT !.scheduled = obs.scheduled + 1,
                           !.begun_early = teardown_outstanding]
    /\ cpc' = "idle"
    /\ UNCHANGED <<experiment, saver, process, recorder>>
    /\ UNCHANGED <<self, queue, event, csv, run, loops_running,
                   shutdown_threads>>

----------------------------------------------------------------------------
(* The caller's thread: stop_experiment and sync                           *)

\* asyncio.Task.done() of the task self._steps_task refers to; the task of
\* an earlier run has ended before a later run could be started, or it
\* belongs to a loop that shutdown() stopped, where a cancel has no effect
steps_task_done(s) ==
    IF s.steps_task = lifecycle.exp THEN task.pc = "done" ELSE TRUE

\* service.py 260: self._steps_task and not self._steps_task.done()
steps_task_in_flight(s) == s.steps_task # None /\ ~steps_task_done(s)

\* the procedure of the current run is waiting at an await of its steps()
between_rows ==
    /\ lifecycle.exp = run
    /\ lifecycle.pc = "await"
    /\ task.pc \in {"suspended", "blocked"}

\* stop_experiment_entry that returns early only when IDLE
stop_experiment_entry_idle ==
    /\ cpc = "idle"
    /\ cpc' = IF self.status = IDLE THEN "stop_return" ELSE "stop_status"
    /\ obs' = IF self.status = RUNNING /\ between_rows
              THEN [obs EXCEPT !.stop_called_k = obs.produced] ELSE obs
    /\ UNCHANGED <<experiment, saver, process, recorder>>
    /\ UNCHANGED <<self, queue, event, csv, run, loops_running,
                   shutdown_threads, lifecycle, task, cancel_pending>>

\* service.py 252-253: no-op unless RUNNING
stop_experiment_entry ==
    /\ cpc = "idle"
    /\ cpc' = IF self.status # RUNNING THEN "stop_return" ELSE "stop_status"
    /\ obs' = IF self.status = RUNNING /\ between_rows
              THEN [obs EXCEPT !.stop_called_k = obs.produced] ELSE obs
    /\ UNCHANGED <<experiment, saver, process, recorder>>
    /\ UNCHANGED <<self, queue, event, csv, run, loops_running,
                   shutdown_threads, lifecycle, task, cancel_pending>>

\* service.py 253: return, to the caller or into _stop_current_experiment
stop_experiment_return ==
    /\ cpc = "stop_return"
    /\ cpc' = IF obs.in_shutdown THEN "stop_thread" ELSE "idle"
    /\ UNCHANGED <<experiment, saver, process, recorder>>
    /\ UNCHANGED <<self, queue, event, csv, run, loops_running,
                   shutdown_threads, lifecycle, task, cancel_pending, obs>>

\* service.py 255-256
stop_experiment_status ==
    /\ cpc = "stop_status"
    /\ self' = set_status(self, STOPPING)
    /\ cpc' = IF notifies(self, STOPPING) THEN "stop_notify" ELSE "stop_event"
    /\ UNCHANGED <<experiment, saver, process, recorder>>
    /\ UNCHANGED <<queue, event, csv, run, loops_running, shutdown_threads,
                   lifecycle, task, cancel_pending, obs>>

\* stop_experiment_event that leaves the stop flag as it is
stop_experiment_event_unset ==
    /\ cpc = "stop_event"
    /\ event' = event
    /\ obs' = [obs EXCEPT !.stop_k = obs.produced]
    /\ cpc' = "stop_cancel"
    /\ UNCHANGED <<experiment, saver, process, recorder>>
    /\ UNCHANGED <<self, queue, csv, run, loops_running, shutdown_threads,
                   lifecycle, task, cancel_pending>>

\* service.py 257: self.stop_event.set()
stop_experiment_event ==
    /\ cpc = "stop_event"
    /\ event' = TRUE
    /\ obs' = [obs EXCEPT !.stop_k = obs.produced]
    /\ cpc' = "stop_cancel"
    /\ UNCHANGED <<experiment, saver, process, recorder>>
    /\ UNCHANGED <<self, queue, csv, run, loops_running, shutdown_threads,
                   lifecycle, task, cancel_pending>>

\* stop_experiment_cancel that also closes the row file, on the caller's
\* thread, and leaves self.data_saver in place
stop_experiment_cancel_closing ==
    /\ cpc = "stop_cancel"
    /\ cancel_pending' = (cancel_pending \/ steps_task_in_flight(self))
    /\ csv' = [csv EXCEPT !.open = FALSE]
    /\ cpc' = IF obs.in_shutdown THEN "stop_thread" ELSE "idle"
    /\ UNCHANGED <<experiment, saver, process, recorder>>
    /\ UNCHANGED <<self, queue, event, run, loops_running,
                   shutdown_threads, lifecycle, task, obs>>

\* service.py 259-262: loop.call_soon_threadsafe(self._steps_task.cancel)
stop_experiment_cancel ==
    /\ cpc = "stop_cancel"
    /\ cancel_pending' = (cancel_pending \/ steps_task_in_flight(self))
    /\ cpc' = IF obs.in_shutdown THEN "stop_thread" ELSE "idle"
    /\ UNCHANGED <<experiment, saver, process, recorder>>
    /\ UNCHANGED <<self, queue, event, csv, run, loops_running,
                   shutdown_threads, lifecycle, task, obs>>

\* sync_entry that goes on to record the time whatever the status is
sync_entry_any_status ==
    /\ cpc = "idle"
    /\ cpc' = "sync_record"
    /\ UNCHANGED <<experiment, saver, process, recorder>>
    /\ UNCHANGED <<self, queue, event, csv, run, loops_running,
                   shutdown_threads, lifecycle, task, cancel_pending, obs>>

\* service.py 266-268: no-op unless RUNNING
sync_entry ==
    /\ cpc = "idle"
    /\ cpc' = IF self.status = RUNNING THEN "sync_record" ELSE "sync_return"
    /\ UNCHANGED <<experiment, saver, process, recorder>>
    /\ UNCHANGED <<self, queue, event, csv, run, loops_running,
                   shutdown_threads, lifecycle, task, cancel_pending, obs>>

\* service.py 270-278: self._last_sync_time = current_time
sync_record ==
    /\ cpc = "sync_record"
    /\ self' = [self EXCEPT !.last_sync_time = TRUE]
    /\ obs' = [obs EXCEPT !.synced = TRUE]
    /\ cpc' = "idle"
    /\ UNCHANGED <<experiment, saver, process, recorder>>
    /\ UNCHANGED <<queue, event, csv, run, loops_running, shutdown_threads,
                   lifecycle, task, cancel_pending>>

\* service.py 266-268: logger.warning("No experiment is running"); return
sync_return ==
    /\ cpc = "sync_return"
    /\ cpc' = "idle"
    /\ UNCHANGED <<experiment, saver, process, recorder>>
    /\ UNCHANGED <<self, queue, event, csv, run, loops_running,
                   shutdown_threads, lifecycle, task, cancel_pending, obs>>

----------------------------------------------------------------------------
(* The loop thread: _run_lifecycle and the _run_steps task                 *)

\* a coroutine or callback of the lifecycle's loop can be run
on_loop == lifecycle.loop \in loops_running

\* run_lifecycle_begin that keeps the sync reference of the service
run_lifecycle_begin_keep ==
    /\ on_loop
    /\ lifecycle.pc = "scheduled"
    /\ self' = self
    /\ obs' = [obs EXCEPT !.setup_attempted = TRUE]
    /\ lifecycle' = [lifecycle EXCEPT !.pc = "setup"]
    /\ UNCHANGED <<experiment, saver, process, recorder>>
    /\ UNCHANGED <<queue, event, csv, run, loops_running, shutdown_threads,
                   cpc, task, cancel_pending>>

\* service.py 323-328: start time, sync reference reset, setup() is awaited
run_lifecycle_begin ==
    /\ on_loop
    /\ lifecycle.pc = "scheduled"
    /\ self' = [self EXCEPT !.last_sync_time = FALSE]
    /\ obs' = [obs EXCEPT !.setup_attempted = TRUE]
    /\ lifecycle' = [lifecycle EXCEPT !.pc = "setup"]
    /\ UNCHANGED <<experiment, saver, process, recorder>>
    /\ UNCHANGED <<queue, event, csv, run, loops_running, shutdown_threads,
                   cpc, task, cancel_pending>>

\* service.py 328: await exp.setup() returns
setup_returns ==
    /\ on_loop
    /\ lifecycle.pc = "setup"
    /\ lifecycle' = [lifecycle EXCEPT !.pc = "spawn"]
    /\ UNCHANGED <<experiment, saver, process, recorder>>
    /\ UNCHANGED <<self, queue, event, csv, run, loops_running,
                   shutdown_threads, cpc, task, cancel_pending, obs>>

\* service.py 328, 343: await exp.setup() raises
setup_raises ==
    /\ on_loop
    /\ lifecycle.pc = "setup"
    /\ lifecycle' = [lifecycle EXCEPT !.pc = "except"]
    /\ obs' = [obs EXCEPT !.setup_raised = TRUE]
    /\ UNCHANGED <<experiment, saver, process, recorder>>
    /\ UNCHANGED <<self, queue, event, csv, run, loops_running,
                   shutdown_threads, cpc, task, cancel_pending>>

\* service.py 335-337: self._steps_task = asyncio.create_task(_run_steps)
run_lifecycle_spawn ==
    /\ on_loop
    /\ lifecycle.pc = "spawn"
    /\ self' = [self EXCEPT !.steps_task = lifecycle.exp]
    /\ task' = [pc |-> "created", result |-> "none"]
    /\ lifecycle' = [lifecycle EXCEPT !.pc = "await"]
    /\ UNCHANGED <<experiment, saver, process, recorder>>
    /\ UNCHANGED <<queue, event, csv, run, loops_running, shutdown_threads,
                   cpc, cancel_pending, obs>>

\* service.py 288: the task starts iterating exp.steps()
run_steps_begin ==
    /\ on_loop
    /\ task.pc = "created"
    /\ task' = [task EXCEPT !.pc = "running"]
    /\ UNCHANGED <<experiment, saver, process, recorder>>
    /\ UNCHANGED <<self, queue, event, csv, run, loops_running,
                   shutdown_threads, cpc, lifecycle, cancel_pending, obs>>

\* the procedure yields its next row (rows are numbered in production order)
steps_yield ==
    /\ on_loop
    /\ task.pc = "running"
    /\ obs.produced < MaxRows
    /\ obs' = [obs EXCEPT !.produced = obs.produced + 1]
    /\ task' = [task EXCEPT !.pc = "item"]
    /\ UNCHANGED <<experiment, saver, process, recorder>>
    /\ UNCHANGED <<self, queue, event, csv, run, loops_running,
                   shutdown_threads, cpc, lifecycle, cancel_pending>>

\* the procedure awaits something that completes (asyncio.sleep, device I/O)
steps_suspend ==
    /\ on_loop
    /\ task.pc = "running"
    /\ task' = [task EXCEPT !.pc = "suspended"]
    /\ UNCHANGED <<experiment, saver, process, recorder>>
    /\ UNCHANGED <<self, queue, event, csv, run, loops_running,
                   shutdown_threads, cpc, lifecycle, cancel_pending, obs>>

\* the awaited thing completes and the procedure goes on
steps_resume ==
    /\ on_loop
    /\ task.pc = "suspended"
    /\ task' = [task EXCEPT !.pc = "running"]
    /\ UNCHANGED <<experiment, saver, process, recorder>>
    /\ UNCHANGED <<self, queue, event, csv, run, loops_running,
                   shutdown_threads, cpc, lifecycle, cancel_pending, obs>>

\* the procedure awaits something that does not complete by itself
steps_block ==
    /\ on_loop
    /\ task.pc = "running"
    /\ task' = [task EXCEPT !.pc = "blocked"]
    /\ UNCHANGED <<experiment, saver, process, recorder>>
    /\ UNCHANGED <<self, queue, event, csv, run, loops_running,
                   shutdown_threads, cpc, lifecycle, cancel_pending, obs>>

\* the procedure raises while producing its next row
steps_raise ==
    /\ on_loop
    /\ task.pc = "running"
    /\ task' = [pc |-> "done", result |-> "error"]
    /\ obs' = [obs EXCEPT !.steps_raised = TRUE]
    /\ UNCHANGED <<experiment, saver, process, recorder>>
    /\ UNCHANGED <<self, queue, event, csv, run, loops_running,
                   shutdown_threads, cpc, lifecycle, cancel_pending>>

\* the procedure's generator is exhausted
steps_finish ==
    /\ on_loop
    /\ task.pc = "running"
    /\ task' = [pc |-> "done", result |-> "ok"]
    /\ UNCHANGED <<experiment, saver, process, recorder>>
    /\ UNCHANGED <<self, queue, event, csv, run, loops_running,
                   shutdown_threads, cpc, lifecycle, cancel_pending, obs>>

\* the row the procedure yielded last
current_row == obs.produced - 1

\* service.py 299: data["sync_t"] is the time since the sync reference when
\* there is one ("elapsed": the difference of two clock readings, never
\* negative), else the sentinel -1
sync_t(s) == IF s.last_sync_time THEN "elapsed" ELSE "sentinel"

\* run_steps_check without the test of the stop flag (service.py 290-292)
run_steps_check_unstoppable ==
    /\ on_loop
    /\ task.pc = "item"
    /\ task' = [task EXCEPT !.pc = "persist"]
    /\ obs' = [obs EXCEPT !.sync_t = sync_t(self)]
    /\ UNCHANGED <<experiment, saver, process, recorder>>
    /\ UNCHANGED <<self, queue, event, csv, run, loops_running,
                   shutdown_threads, cpc, lifecycle, cancel_pending>>

\* service.py 289-300: stop flag observed -> break (obs.stop_seen), else
\* stamp the row; obs.sync_t is data["sync_t"] of the row the loop body is
\* working on
run_steps_check ==
    /\ on_loop
    /\ task.pc = "item"
    /\ IF event
       THEN /\ task' = [pc |-> "done", result |-> "ok"]
            /\ obs' = [obs EXCEPT !.stop_seen = TRUE]
       ELSE /\ task' = [task EXCEPT !.pc = "persist"]
            /\ obs' = [obs EXCEPT !.sync_t = sync_t(self)]
    /\ UNCHANGED <<experiment, saver, process, recorder>>
    /\ UNCHANGED <<self, queue, event, csv, run, loops_running,
                   shutdown_threads, cpc, lifecycle, cancel_pending>>

\* data_saver.py 178-197: one line per row, nothing when the writer is closed
write_data(f, row) ==
    IF f.open THEN [f EXCEPT !.rows = Append(f.rows, row)] ELSE f

\* service.py 302-313: persist unless debug_mode
run_steps_persist ==
    /\ on_loop
    /\ task.pc = "persist"
    /\ IF ~self.debug_mode
       THEN IF self.data_saver = None
            THEN /\ task' = [pc |-> "done", result |-> "error"]
                 /\ csv' = csv
            ELSE /\ csv' = write_data(csv, current_row)
                 /\ task' = [task EXCEPT !.pc = "put"]
       ELSE /\ task' = [task EXCEPT !.pc = "put"]
            /\ csv' = csv
    /\ UNCHANGED <<experiment, saver, process, recorder>>
    /\ UNCHANGED <<self, queue, event, run, loops_running, shutdown_threads,
                   cpc, lifecycle, cancel_pending, obs>>

\* data_saver.py 184-197: writerow or flush raises inside write_data; the
\* except clause logs the exception and write_data returns normally
write_data_failing(f, row) == f

\* service.py 302-316 when the write fails: write_data has swallowed the
\* exception, so the except clause of lines 311-313 is not entered and the
\* loop goes on to put the row on the queue
run_steps_persist_failing ==
    /\ on_loop
    /\ task.pc = "persist"
    /\ ~self.debug_mode
    /\ self.data_saver # None
    /\ csv.open
    /\ csv' = write_data_failing(csv, current_row)
    /\ task' = [task EXCEPT !.pc = "put"]
    /\ obs' = [obs EXCEPT !.write_failed = TRUE]
    /\ UNCHANGED <<experiment, saver, process, recorder>>
    /\ UNCHANGED <<self, queue, event, run, loops_running, shutdown_threads,
                   cpc, lifecycle, cancel_pending>>

\* run_steps_put that puts the row in front of the rows waiting in the queue
run_steps_put_front ==
    /\ on_loop
    /\ task.pc = "put"
    /\ queue' = <<current_row>> \o queue
    /\ task' = [task EXCEPT !.pc = "running"]
    /\ obs' = [obs EXCEPT !.sync_t = "none", !.prev_synced = FALSE]
    /\ UNCHANGED <<experiment, saver, process, recorder>>
    /\ UNCHANGED <<self, event, csv, run, loops_running, shutdown_threads,
                   cpc, lifecycle, cancel_pending>>

\* service.py 315-316: self.data_queue.put(data); the loop body is left and
\* data is bound anew by the next iteration
run_steps_put ==
    /\ on_loop
    /\ task.pc = "put"
    /\ queue' = Append(queue, current_row)
    /\ task' = [task EXCEPT !.pc = "running"]
    /\ obs' = [obs EXCEPT !.sync_t = "none", !.prev_synced = FALSE]
    /\ UNCHANGED <<experiment, saver, process, recorder>>
    /\ UNCHANGED <<self, event, csv, run, loops_running, shutdown_threads,
                   cpc, lifecycle, cancel_pending>>

\* gui/controller.py 208-223, on_timer_update_experiment_data: one
\* get_nowait() of the polling loop on the queue self.data_queue refers to;
\* the producer can put rows between two iterations.  The timer callback
\* runs on the thread that makes the start, stop and sync calls, between
\* two of them.
data_queue_get ==
    /\ cpc = "idle"
    /\ self.data_queue # None
    /\ queue # <<>>
    /\ obs' = [obs EXCEPT !.consumed = Append(obs.consumed, Head(queue))]
    /\ queue' = Tail(queue)
    /\ UNCHANGED <<experiment, saver, process, recorder>>
    /\ UNCHANGED <<self, event, csv, run, loops_running, shutdown_threads,
                   cpc, lifecycle, task, cancel_pending>>

\* the queued _steps_task.cancel callback runs: a task waiting at an await
\* gets CancelledError there, a task that has ended is left alone
steps_task_cancel ==
    /\ on_loop
    /\ cancel_pending
    /\ task.pc \in {"created", "suspended", "blocked", "done"}
    /\ cancel_pending' = FALSE
    /\ task' = IF task.pc = "done" THEN task
               ELSE [pc |-> "done", result |-> "cancelled"]
    /\ obs' = [obs EXCEPT !.cancelled = (obs.cancelled \/ task.pc # "done")]
    /\ UNCHANGED <<experiment, saver, process, recorder>>
    /\ UNCHANGED <<self, queue, event, csv, run, loops_running,
                   shutdown_threads, cpc, lifecycle>>

\* run_lifecycle_await with cleanup() run in the try body instead of the
\* finally block: a cancelled task skips it
run_lifecycle_await_skip ==
    /\ on_loop
    /\ lifecycle.pc = "await"
    /\ task.pc = "done"
    /\ lifecycle' = [lifecycle EXCEPT !.pc =
                        IF task.result = "error" THEN "except"
                        ELSE IF task.result = "cancelled"
                             THEN "cleanup_data_saving" ELSE "finally"]
    /\ task' = [task EXCEPT !.result = "taken"]
    /\ UNCHANGED <<experiment, saver, process, recorder>>
    /\ UNCHANGED <<self, queue, event, csv, run, loops_running,
                   shutdown_threads, cpc, cancel_pending, obs>>

\* service.py 337-343: await self._steps_task ends
run_lifecycle_await ==
    /\ on_loop
    /\ lifecycle.pc = "await"
    /\ task.pc = "done"
    /\ lifecycle' = [lifecycle EXCEPT !.pc =
                        IF task.result = "error" THEN "except" ELSE "finally"]
    /\ task' = [task EXCEPT !.result = "taken"]
    /\ UNCHANGED <<experiment, saver, process, recorder>>
    /\ UNCHANGED <<self, queue, event, csv, run, loops_running,
                   shutdown_threads, cpc, cancel_pending, obs>>

\* run_lifecycle_except that only logs the exception
run_lifecycle_except_logonly ==
    /\ on_loop
    /\ lifecycle.pc = "except"
    /\ lifecycle' = [lifecycle EXCEPT !.pc = "error"]
    /\ UNCHANGED <<experiment, saver, process, recorder>>
    /\ UNCHANGED <<self, queue, event, csv, run, loops_running,
                   shutdown_threads, cpc, task, cancel_pending, obs>>

\* service.py 343-347: self._last_error = e
run_lifecycle_except ==
    /\ on_loop
    /\ lifecycle.pc = "except"
    /\ self' = [self EXCEPT !.last_error = "exc"]
    /\ lifecycle' = [lifecycle EXCEPT !.pc = "error"]
    /\ UNCHANGED <<experiment, saver, process, recorder>>
    /\ UNCHANGED <<queue, event, csv, run, loops_running, shutdown_threads,
                   cpc, task, cancel_pending, obs>>

\* service.py 348: self._set_status(ExperimentStatus.ERROR)
run_lifecycle_error ==
    /\ on_loop
    /\ lifecycle.pc = "error"
    /\ self' = set_status(self, ERROR)
    /\ lifecycle' = [lifecycle EXCEPT !.pc =
                        IF notifies(self, ERROR) THEN "error_notify"
                        ELSE "finally"]
    /\ UNCHANGED <<experiment, saver, process, recorder>>
    /\ UNCHANGED <<queue, event, csv, run, loops_running, shutdown_threads,
                   cpc, task, cancel_pending, obs>>

\* service.py 349-352: finally: await exp.cleanup() is entered
cleanup_begin ==
    /\ on_loop
    /\ lifecycle.pc = "finally"
    /\ obs' = [obs EXCEPT !.teardowns = obs.teardowns + 1]
    /\ lifecycle' = [lifecycle EXCEPT !.pc = "cleanup"]
    /\ UNCHANGED <<experiment, saver, process, recorder>>
    /\ UNCHANGED <<self, queue, event, csv, run, loops_running,
                   shutdown_threads, cpc, task, cancel_pending>>

\* service.py 352-353: exp.cleanup() returns
cleanup_returns ==
    /\ on_loop
    /\ lifecycle.pc = "cleanup"
    /\ lifecycle' = [lifecycle EXCEPT !.pc = "cleanup_data_saving"]
    /\ UNCHANGED <<experiment, saver, process, recorder>>
    /\ UNCHANGED <<self, queue, event, csv, run, loops_running,
                   shutdown_threads, cpc, task, cancel_pending, obs>>

\* service.py 352: exp.cleanup() raises; nothing catches it inside the
\* finally block, so the coroutine ends there
cleanup_raises ==
    /\ on_loop
    /\ lifecycle.pc = "cleanup"
    /\ lifecycle' = [lifecycle EXCEPT !.pc = "raised"]
    /\ obs' = [obs EXCEPT !.teardown_raised = TRUE]
    /\ UNCHANGED <<experiment, saver, process, recorder>>
    /\ UNCHANGED <<self, queue, event, csv, run, loops_running,
                   shutdown_threads, cpc, task, cancel_pending>>

\* data_saver.py 199-209
stop_writing(f) == [f EXCEPT !.open = FALSE]

\* cleanup_data_saving that forgets the data saver without closing its file
cleanup_data_saving_unclosed ==
    /\ on_loop
    /\ lifecycle.pc = "cleanup_data_saving"
    /\ csv' = csv
    /\ self' = [self EXCEPT !.data_saver = None,
                            !.experiment_logger_manager = FALSE]
    /\ lifecycle' = [lifecycle EXCEPT !.pc = "finished"]
    /\ UNCHANGED <<experiment, saver, process, recorder>>
    /\ UNCHANGED <<queue, event, run, loops_running, shutdown_threads,
                   cpc, task, cancel_pending, obs>>

\* service.py 355-356, _cleanup_data_saving 372-387
cleanup_data_saving ==
    /\ on_loop
    /\ lifecycle.pc = "cleanup_data_saving"
    /\ csv' = IF self.data_saver # None THEN stop_writing(csv) ELSE csv
    /\ self' = [self EXCEPT !.data_saver = None,
                            !.experiment_logger_manager = FALSE]
    /\ lifecycle' = [lifecycle EXCEPT !.pc = "finished"]
    /\ UNCHANGED <<experiment, saver, process, recorder>>
    /\ UNCHANGED <<queue, event, run, loops_running, shutdown_threads,
                   cpc, task, cancel_pending, obs>>

\* service.py 358-359: FINISHED unless already ERROR
run_lifecycle_finished ==
    /\ on_loop
    /\ lifecycle.pc = "finished"
    /\ self' = IF self.status # ERROR THEN set_status(self, FINISHED) ELSE self
    /\ lifecycle' = [lifecycle EXCEPT !.pc =
                        IF self.status # ERROR /\ notifies(self, FINISHED)
                        THEN "finished_notify" ELSE "clear"]
    /\ UNCHANGED <<experiment, saver, process, recorder>>
    /\ UNCHANGED <<queue, event, csv, run, loops_running, shutdown_threads,
                   cpc, task, cancel_pending, obs>>

\* service.py 361-370: instance cleared, _shutdown_after_delay scheduled
run_lifecycle_clear ==
    /\ on_loop
    /\ lifecycle.pc = "clear"
    /\ self' = [self EXCEPT !.current_experiment_instance = None]
    /\ lifecycle' = [lifecycle EXCEPT !.pc = "delay"]
    /\ UNCHANGED <<experiment, saver, process, recorder>>
    /\ UNCHANGED <<queue, event, csv, run, loops_running, shutdown_threads,
                   cpc, task, cancel_pending, obs>>

\* service.py 389-405: after the drain delay the helper thread is started
\* and the active flag cleared
shutdown_after_delay ==
    /\ on_loop
    /\ lifecycle.pc = "delay"
    /\ IF self.experiment_active
       THEN /\ shutdown_threads' = shutdown_threads + 1
            /\ self' = [self EXCEPT !.experiment_active = FALSE]
       ELSE UNCHANGED <<shutdown_threads, self>>
    /\ lifecycle' = [lifecycle EXCEPT !.pc = "over"]
    /\ UNCHANGED <<experiment, saver, process, recorder>>
    /\ UNCHANGED <<queue, event, csv, run, loops_running, cpc, task,
                   cancel_pending, obs>>

\* service.py 398-400: the helper stops whatever loop self.loop is by then
shutdown_thread ==
    /\ shutdown_threads > 0
    /\ shutdown_threads' = shutdown_threads - 1
    /\ loops_running' = IF self.loop # None /\ self.loop \in loops_running
                        THEN loops_running \ {self.loop}
                        ELSE loops_running
    /\ UNCHANGED <<experiment, saver, process, recorder>>
    /\ UNCHANGED <<self, queue, event, csv, run, cpc, lifecycle, task,
                   cancel_pending, obs>>

----------------------------------------------------------------------------
(* The caller's thread: shutdown                                           *)

\* service.py 69-75: shutdown() acts only while an experiment thread is active
shutdown_entry ==
    /\ cpc = "idle"
    /\ cpc' = IF self.experiment_active THEN "stop_current"
                                        ELSE "shutdown_return"
    /\ obs' = [obs EXCEPT !.in_shutdown = self.experiment_active]
    /\ UNCHANGED <<experiment, saver, process, recorder>>
    /\ UNCHANGED <<self, queue, event, csv, run, loops_running,
                   shutdown_threads, lifecycle, task, cancel_pending>>

\* service.py 74-75: nothing to stop
shutdown_return ==
    /\ cpc = "shutdown_return"
    /\ cpc' = "idle"
    /\ UNCHANGED <<experiment, saver, process, recorder>>
    /\ UNCHANGED <<self, queue, event, csv, run, loops_running,
                   shutdown_threads, lifecycle, task, cancel_pending, obs>>

\* service.py 113-117, _stop_current_experiment: stop_experiment() is called
\* when the status is RUNNING
stop_current_experiment ==
    /\ cpc = "stop_current"
    /\ cpc' = IF self.status = RUNNING THEN "stop_entry" ELSE "stop_thread"
    /\ UNCHANGED <<experiment, saver, process, recorder>>
    /\ UNCHANGED <<self, queue, event, csv, run, loops_running,
                   shutdown_threads, lifecycle, task, cancel_pending, obs>>

\* service.py 250-253: the status check of the stop_experiment() call made
\* by _stop_current_experiment
stop_experiment_entry_nested ==
    /\ cpc = "stop_entry"
    /\ cpc' = IF self.status = RUNNING THEN "stop_status" ELSE "stop_return"
    /\ UNCHANGED <<experiment, saver, process, recorder>>
    /\ UNCHANGED <<self, queue, event, csv, run, loops_running,
                   shutdown_threads, lifecycle, task, cancel_pending, obs>>

\* service.py 95-111, _stop_experiment_thread: loop.stop is queued on the
\* loop and the thread is joined; the loop is taken to be between two
\* callbacks, so it stops before the join returns.  Callbacks queued
\* earlier and not yet run (a task's wake-up with CancelledError) are
\* never run.
stop_experiment_thread ==
    /\ cpc = "stop_thread"
    /\ IF self.experiment_active
       THEN /\ loops_running' = loops_running \ {self.loop}
            /\ self' = [self EXCEPT !.loop = None, !.experiment_active = FALSE]
       ELSE UNCHANGED <<loops_running, self>>
    /\ obs' = [obs EXCEPT !.in_shutdown = FALSE]
    /\ cpc' = "idle"
    /\ UNCHANGED <<experiment, saver, process, recorder>>
    /\ UNCHANGED <<queue, event, csv, run, shutdown_threads, lifecycle, task,
                   cancel_pending>>

Shutdown ==
    \/ shutdown_entry
    \/ shutdown_return
    \/ stop_current_experiment
    \/ stop_experiment_entry_nested
    \/ stop_experiment_thread

----------------------------------------------------------------------------
\* the start_experiment and stop_experiment calls
StartStop ==
    \/ \E d \in BOOLEAN : start_experiment_entry(d)
    \/ start_experiment_rejected
    \/ start_experiment_thread
    \/ start_experiment_failed
    \/ start_experiment_status
    \/ start_experiment_alloc
    \/ start_experiment_instance
    \/ start_experiment_init_raises
    \/ start_experiment_open_raises
    \/ start_experiment_schedule
    \/ stop_experiment_entry
    \/ stop_experiment_return
    \/ stop_experiment_status
    \/ stop_experiment_event
    \/ stop_experiment_cancel

\* the sync calls
Sync ==
    \/ sync_entry
    \/ sync_record
    \/ sync_return

Caller == StartStop \/ Sync

Procedure ==
    \/ setup_returns
    \/ setup_raises
    \/ steps_yield
    \/ steps_suspend
    \/ steps_resume
    \/ steps_block
    \/ steps_raise
    \/ steps_finish
    \/ cleanup_returns
    \/ cleanup_raises

Engine ==
    \/ run_lifecycle_begin
    \/ run_lifecycle_spawn
    \/ run_steps_begin
    \/ run_steps_check
    \/ run_steps_persist
    \/ run_steps_put
    \/ steps_task_cancel
    \/ run_lifecycle_await
    \/ run_lifecycle_except
    \/ run_lifecycle_error
    \/ cleanup_begin
    \/ cleanup_data_saving
    \/ run_lifecycle_finished
    \/ run_lifecycle_clear
    \/ shutdown_after_delay
    \/ shutdown_thread

Next == Caller \/ Procedure \/ Engine

Spec == Init /\ [][Next]_vars

TypeOK ==
    /\ self.status \in ExperimentStatus
    /\ run \in 0..MaxRuns
    /\ obs.teardowns \in 0..2
    /\ obs.sync_t \in {"none", "sentinel", "elapsed"}
    /\ Len(obs.consumed) + Len(queue) <= MaxRows

----------------------------------------------------------------------------
(* Scheduling.  A call in progress on the caller's thread goes on to its   *)
(* next statement; the loop runs whatever is ready (coroutines, the task,  *)
(* awaited things that complete); a queued cancel callback is run by the   *)
(* loop's FIFO ready queue after at most one step of the task; the helper  *)
(* thread runs.  Nothing obliges the caller to make a new call, and a      *)
(* procedure that awaits something that never completes stays there.       *)

CallerContinue ==
    \/ start_experiment_rejected
    \/ start_experiment_thread
    \/ start_experiment_failed
    \/ start_experiment_status
    \/ start_experiment_alloc
    \/ start_experiment_instance
    \/ start_experiment_init_raises
    \/ start_experiment_open_raises
    \/ start_experiment_schedule
    \/ stop_experiment_return
    \/ stop_experiment_status
    \/ stop_experiment_event
    \/ stop_experiment_cancel
    \/ sync_record
    \/ sync_return

LoopProgress ==
    \/ Procedure
    \/ run_lifecycle_begin
    \/ run_lifecycle_spawn
    \/ run_steps_begin
    \/ run_steps_check
    \/ run_steps_persist
    \/ run_steps_put
    \/ run_lifecycle_await
    \/ run_lifecycle_except
    \/ run_lifecycle_error
    \/ cleanup_begin
    \/ cleanup_data_saving
    \/ run_lifecycle_finished
    \/ run_lifecycle_clear
    \/ shutdown_after_delay

FairSpec ==
    /\ Spec
    /\ WF_vars(CallerContinue)
    /\ WF_vars(LoopProgress)
    /\ SF_vars(steps_task_cancel)
    /\ WF_vars(shutdown_thread)

\* the engine on a disk where a write of a row can fail, and with
\* parameters whose metadata record cannot be written
NextWriteFailure ==
    \/ Next
    \/ run_steps_persist_failing
    \/ start_experiment_instance_metadata_fails

SpecWriteFailure == Init /\ [][NextWriteFailure]_vars

----------------------------------------------------------------------------
(* BaseExperiment.__init__ taken on its own (src/ebilab/api/experiment.py): *)
(* a class declares some names as OptionField class attributes, and the     *)
(* constructor is given a mapping from names to values.                     *)

OptionNames == 1..MaxOptions
OptionValues == {"x", "y"}

\* the class attribute of a declared option: the field descriptor
OptionField == "OptionField"
\* getattr on a name the class does not declare as an option
NoOption == "NoOption"

\* api/experiment.py 46-55, _setup_option_value: each key of the mapping
\* that names an OptionField attribute is set to its value, other keys are
\* logged; attributes the mapping does not mention stay as the class has
\* them
setup_option_value(fields, options) ==
    [n \in OptionNames |->
        IF n \in DOMAIN options /\ n \in fields THEN options[n]
        ELSE IF n \in fields THEN OptionField
        ELSE NoOption]

\* api/experiment.py 33-34: BaseExperiment.__init__(options); no statement
\* of it raises
BaseExperiment_init ==
    \E fields \in SUBSET OptionNames, keys \in SUBSET OptionNames :
      \E options \in [keys -> OptionValues] :
        /\ experiment' = [fields |-> fields, options |-> options,
                          attrs |-> setup_option_value(fields, options),
                          raised |-> FALSE]
        /\ UNCHANGED <<self, queue, event, csv, run, loops_running,
                       shutdown_threads, cpc, lifecycle, task,
                       cancel_pending, obs, saver, process, recorder>>

NextConstruct == BaseExperiment_init

SpecConstruct == Init /\ [][NextConstruct]_vars

-----------------------------------------------------------------------------
(* ClassWithOption.__init__ taken on its own (src/ebilab/analysis2/base.py), *)
(* the base of DfProcess and DfPlotter: a class declares some names as       *)
(* OptionField class attributes, or defines an explicit options dict, and    *)
(* the constructor is given a mapping from names to values.                  *)

\* analysis2/base.py 25-36: the explicit options dict when the class has
\* one, else the attributes whose class is an OptionField
get_options(declared, explicit, options) ==
    IF explicit THEN options ELSE declared

\* inject_kwargs that leaves alone the options the mapping lacks
inject_kwargs_lenient(names, declared, kwargs) ==
    [raised |-> FALSE,
     attrs |-> [n \in OptionNames |->
                  IF n \in names /\ n \in DOMAIN kwargs THEN kwargs[n]
                  ELSE IF n \in declared THEN OptionField
                  ELSE NoOption]]

\* analysis2/base.py 16-21: the for loop over the option names, in the order
\* of the dict (dir() gives names in ascending order); a name the mapping
\* lacks raises ValueError, the names before it have been set by then
inject_kwargs(names, declared, kwargs) ==
    LET missing == names \ DOMAIN kwargs
        set == IF missing = {} THEN names
               ELSE {n \in names : \A k \in missing : n < k}
    IN [raised |-> missing # {},
        attrs |-> [n \in OptionNames |->
                     IF n \in set THEN kwargs[n]
                     ELSE IF n \in declared THEN OptionField
                     ELSE NoOption]]

\* analysis2/base.py 12-21: ClassWithOption.__init__(kwargs)
ClassWithOption_init ==
    /\ ~process.made
    /\ \E declared \in SUBSET OptionNames, explicit \in BOOLEAN,
          keys \in SUBSET OptionNames :
        \E options \in (IF explicit THEN SUBSET OptionNames ELSE {{}}),
           kwargs \in [keys -> OptionValues] :
          LET names == get_options(declared, explicit, options)
              done == inject_kwargs(names, declared, kwargs)
          IN process' = [made |-> TRUE, declared |-> declared,
                         explicit |-> explicit, options |-> options,
                         kwargs |-> kwargs, got |-> names,
                         attrs |-> done.attrs, raised |-> done.raised]
    /\ UNCHANGED <<self, queue, event, csv, run, loops_running,
                   shutdown_threads, cpc, lifecycle, task, cancel_pending,
                   obs, experiment, saver, recorder>>

NextOptions == ClassWithOption_init

SpecOptions == Init /\ [][NextOptions]_vars

-----------------------------------------------------------------------------
(* VideoRecorder (src/ebilab/core/video_recorder.py): the caller's thread   *)
(* runs start_preview, stop_preview, start_recording and stop_recording one *)
(* call at a time; the preview thread and the recording thread run their    *)
(* loops.  The camera opens and delivers frames.                            *)

\* the variables the recorder leaves alone
service_vars == <<self, queue, event, csv, run, loops_running,
                  shutdown_threads, cpc, lifecycle, task, cancel_pending,
                  obs, experiment, saver, process>>

\* video_recorder.py 55, 390-400: put_nowait on a queue of maxsize 2; when
\* it is full the oldest frame is dropped first
put_frame(n) == IF n < 2 THEN n + 1 ELSE 2

\* video_recorder.py 145-205: start_preview opens the capture, sets
\* is_previewing, clears the stop event and starts the preview thread
start_preview ==
    /\ recorder.pc = "idle"
    /\ ~recorder.is_previewing
    /\ recorder' = [recorder EXCEPT !.capture = TRUE,
                                    !.is_previewing = TRUE,
                                    !.stop_event = FALSE,
                                    !.preview_thread = "running",
                                    !.previewed = 0]
    /\ UNCHANGED service_vars

\* video_recorder.py 209-212: is_previewing = False
stop_preview_flag ==
    /\ recorder.pc = "idle"
    /\ recorder.is_previewing
    /\ recorder' = [recorder EXCEPT !.is_previewing = FALSE,
                                    !.pc = "stop_preview_event"]
    /\ UNCHANGED service_vars

\* video_recorder.py 213: self.stop_event.set()
stop_preview_event ==
    /\ recorder.pc = "stop_preview_event"
    /\ recorder' = [recorder EXCEPT !.stop_event = TRUE,
                                    !.pc = "stop_preview_join"]
    /\ UNCHANGED service_vars

\* video_recorder.py 215-216: join; the preview loop, whose condition is
\* false by now, ends within the timeout
stop_preview_join ==
    /\ recorder.pc = "stop_preview_join"
    /\ recorder.preview_thread # "running"
    /\ recorder' = [recorder EXCEPT !.pc = "stop_preview_release"]
    /\ UNCHANGED service_vars

\* video_recorder.py 218-227: the capture is released and the queue emptied
stop_preview_release ==
    /\ recorder.pc = "stop_preview_release"
    /\ recorder' = [recorder EXCEPT !.capture = FALSE,
                                    !.preview_queue = 0,
                                    !.pc = "idle"]
    /\ UNCHANGED service_vars

\* video_recorder.py 231-301: start_recording opens the capture unless one
\* is open, creates the writer, sets is_recording, clears the stop event
\* and starts the recording thread
start_recording ==
    /\ recorder.pc = "idle"
    /\ ~recorder.is_recording
    /\ recorder' = [recorder EXCEPT !.capture = TRUE,
                                    !.writer = TRUE,
                                    !.is_recording = TRUE,
                                    !.stop_event = FALSE,
                                    !.recording_thread = "running",
                                    !.written = 0]
    /\ UNCHANGED service_vars

\* video_recorder.py 310-313: is_recording = False
stop_recording_flag ==
    /\ recorder.pc = "idle"
    /\ recorder.is_recording
    /\ recorder' = [recorder EXCEPT !.is_recording = FALSE,
                                    !.pc = "stop_recording_event"]
    /\ UNCHANGED service_vars

\* video_recorder.py 314: self.stop_event.set()
stop_recording_event ==
    /\ recorder.pc = "stop_recording_event"
    /\ recorder' = [recorder EXCEPT !.stop_event = TRUE,
                                    !.pc = "stop_recording_join"]
    /\ UNCHANGED service_vars

\* video_recorder.py 316-317: join; the recording loop, whose condition is
\* false by now, ends within the timeout
stop_recording_join ==
    /\ recorder.pc = "stop_recording_join"
    /\ recorder.recording_thread # "running"
    /\ recorder' = [recorder EXCEPT !.pc = "stop_recording_release"]
    /\ UNCHANGED service_vars

\* video_recorder.py 319-326: the writer is released, and the capture
\* unless a preview is on
stop_recording_release ==
    /\ recorder.pc = "stop_recording_release"
    /\ recorder' = [recorder EXCEPT
                        !.writer = FALSE,
                        !.capture = IF ~recorder.is_previewing THEN FALSE
                                    ELSE @,
                        !.pc = "idle"]
    /\ UNCHANGED service_vars

\* video_recorder.py 355: the condition of the while loop of _preview_loop
preview_loop_condition(r) == r.is_previewing /\ ~r.stop_event

\* video_recorder.py 355-402: one iteration of _preview_loop that reads a
\* frame and puts it on the preview queue
preview_loop_frame ==
    /\ recorder.preview_thread = "running"
    /\ preview_loop_condition(recorder)
    /\ recorder.capture
    /\ recorder.previewed < MaxFrames
    /\ recorder' = [recorder EXCEPT !.preview_queue = put_frame(@),
                                    !.previewed = @ + 1]
    /\ UNCHANGED service_vars

\* video_recorder.py 346-348, 355, 363: _preview_loop ends: no capture at
\* its start, its condition is false, or self.capture has become None and
\* capture.read() raises
preview_loop_exit ==
    /\ recorder.preview_thread = "running"
    /\ ~preview_loop_condition(recorder) \/ ~recorder.capture
    /\ recorder' = [recorder EXCEPT !.preview_thread = "ended"]
    /\ UNCHANGED service_vars

\* video_recorder.py 414: the condition of the while loop of _recording_loop
recording_loop_condition(r) == r.is_recording /\ ~r.stop_event

\* video_recorder.py 414-456: one iteration of _recording_loop that reads
\* a frame, writes it to the file and, when a preview is on, puts it on the
\* preview queue
recording_loop_frame ==
    /\ recorder.recording_thread = "running"
    /\ recording_loop_condition(recorder)
    /\ recorder.capture
    /\ recorder.writer
    /\ recorder.written < MaxFrames
    /\ recorder' = [recorder EXCEPT
                        !.written = @ + 1,
                        !.preview_queue = IF recorder.is_previewing
                                          THEN put_frame(@) ELSE @]
    /\ UNCHANGED service_vars

\* video_recorder.py 408-409, 414, 422: _recording_loop ends: its condition
\* is false, or self.capture has become None and capture.read() raises
recording_loop_exit ==
    /\ recorder.recording_thread = "running"
    /\ ~recording_loop_condition(recorder) \/ ~recorder.capture
    /\ recorder' = [recorder EXCEPT !.recording_thread = "ended"]
    /\ UNCHANGED service_vars

\* video_recorder.py 331-342: get_preview_frame takes a frame off the queue
get_preview_frame ==
    /\ recorder.pc = "idle"
    /\ recorder.preview_queue > 0
    /\ recorder' = [recorder EXCEPT !.preview_queue = @ - 1]
    /\ UNCHANGED service_vars

NextRecorder ==
    \/ start_preview
    \/ stop_preview_flag
    \/ stop_preview_event
    \/ stop_preview_join
    \/ stop_preview_release
    \/ start_recording
    \/ stop_recording_flag
    \/ stop_recording_event
    \/ stop_recording_join
    \/ stop_recording_release
    \/ preview_loop_frame
    \/ preview_loop_exit
    \/ recording_loop_frame
    \/ recording_loop_exit
    \/ get_preview_frame

SpecRecorder == Init /\ [][NextRecorder]_vars

-----------------------------------------------------------------------------
(* ExperimentDataSaver taken on its own (src/ebilab/core/data_saver.py),    *)
(* with the comment edit of ExperimentHistoryManager                        *)
(* (src/ebilab/core/history.py) on the sidecar it has written.  A line of   *)
(* the row file is the sequence of its fields.                              *)

\* column lists a procedure declares
ColumnLists == {<<>>, <<"a">>, <<"a", "b">>, <<"b", "a">>}
\* keys a row holds besides sync_t and time, and the value under each key
RowKeys == {"t", "a", "b", "x"}
RowValue ==
    ("t" :> "0.5") @@ ("sync_t" :> "-1") @@ ("time" :> "12:00")
    @@ ("a" :> "va") @@ ("b" :> "vb") @@ ("x" :> "vx")
\* the row mappings handed to write_data
Rows ==
    {[k \in K \cup {"sync_t", "time"} |-> RowValue[k]] : K \in SUBSET RowKeys}
Comments == {"c1", "c2"}

\* data_saver.py 89-97: ExperimentDataSaver(experiment_name, columns)
ExperimentDataSaver_init ==
    /\ ~saver.made
    /\ \E columns \in ColumnLists :
          saver' = [NoSaver EXCEPT !.made = TRUE, !.columns = columns,
                                   !.called = "init"]
    /\ UNCHANGED <<self, queue, event, csv, run, loops_running,
                   shutdown_threads, cpc, lifecycle, task, cancel_pending,
                   obs, experiment, process, recorder>>

\* data_saver.py 159 and 185: headers = ["t", "sync_t", "time"] + columns
headers(columns) == <<"t", "sync_t", "time">> \o columns

\* start_writing_file that opens the file whether or not it is open
start_writing_file_reopen(s) ==
    [s EXCEPT !.csv_file = TRUE, !.csv = <<headers(s.columns)>>]

\* data_saver.py 151-166: nothing when the file is open; else the file is
\* opened with mode "w" and the header line written
start_writing_file(s) ==
    IF s.csv_file THEN s
    ELSE [s EXCEPT !.csv_file = TRUE, !.csv = <<headers(s.columns)>>]

ExperimentDataSaver_start_writing ==
    /\ saver.made
    /\ saver' = [start_writing_file(saver) EXCEPT !.called = "start_writing",
                                                   !.data = <<>>]
    /\ UNCHANGED <<self, queue, event, csv, run, loops_running,
                   shutdown_threads, cpc, lifecycle, task, cancel_pending,
                   obs, experiment, process, recorder>>

\* write_data_row that leaves out the columns the row does not hold
write_data_row_present(columns, data) ==
    SelectSeq([i \in 1..Len(headers(columns)) |->
                  IF headers(columns)[i] \in DOMAIN data
                  THEN data[headers(columns)[i]] ELSE ""],
              LAMBDA v : v # "")

\* data_saver.py 185-190: data.get(header, "") for each header, in order
write_data_row(columns, data) ==
    [i \in 1..Len(headers(columns)) |->
        IF headers(columns)[i] \in DOMAIN data
        THEN data[headers(columns)[i]] ELSE ""]

\* data_saver.py 178-193: nothing when there is no writer; else one line
write_data_file(s, data) ==
    IF ~s.csv_file THEN s
    ELSE [s EXCEPT !.csv = Append(s.csv, write_data_row(s.columns, data))]

ExperimentDataSaver_write_data ==
    /\ saver.made
    /\ Len(saver.csv) <= MaxRows
    /\ \E data \in Rows :
          saver' = [write_data_file(saver, data) EXCEPT
                       !.called = "write_data", !.data = data]
    /\ UNCHANGED <<self, queue, event, csv, run, loops_running,
                   shutdown_threads, cpc, lifecycle, task, cancel_pending,
                   obs, experiment, process, recorder>>

\* data_saver.py 199-209
ExperimentDataSaver_stop_writing ==
    /\ saver.made
    /\ saver' = [saver EXCEPT !.csv_file = FALSE, !.called = "stop_writing",
                              !.data = <<>>]
    /\ UNCHANGED <<self, queue, event, csv, run, loops_running,
                   shutdown_threads, cpc, lifecycle, task, cancel_pending,
                   obs, experiment, process, recorder>>

\* data_saver.py 134-142: the keys of the metadata object
MetadataKeys ==
    {"experiment_name", "experiment_class", "parameters", "plotters",
     "start_time", "columns", "csv_file"}

\* data_saver.py 127-147: the sidecar written; the service calls it once for
\* each saver (service.py 221-225)
ExperimentDataSaver_save_metadata ==
    /\ saver.made
    /\ saver.metadata = NoMetadata
    /\ saver' = [saver EXCEPT
                    !.metadata = [keys |-> MetadataKeys,
                                  columns |-> saver.columns,
                                  comment |-> ""],
                    !.called = "save_metadata", !.data = <<>>]
    /\ UNCHANGED <<self, queue, event, csv, run, loops_running,
                   shutdown_threads, cpc, lifecycle, task, cancel_pending,
                   obs, experiment, process, recorder>>

\* history.py 175-218: update_comment(experiment_id, comment) for the run of
\* this saver; without a sidecar nothing is done, else the sidecar is read,
\* given the key "comment" and written back to the same path
update_comment ==
    /\ saver.made
    /\ \E comment \in Comments :
          saver' = [saver EXCEPT
                       !.metadata =
                           IF saver.metadata = NoMetadata THEN NoMetadata
                           ELSE [@ EXCEPT !.keys = @ \cup {"comment"},
                                          !.comment = comment],
                       !.called = "update_comment", !.data = <<>>]
    /\ UNCHANGED <<self, queue, event, csv, run, loops_running,
                   shutdown_threads, cpc, lifecycle, task, cancel_pending,
                   obs, experiment, process, recorder>>

NextSaver ==
    \/ ExperimentDataSaver_init
    \/ ExperimentDataSaver_start_writing
    \/ ExperimentDataSaver_write_data
    \/ ExperimentDataSaver_stop_writing
    \/ ExperimentDataSaver_save_metadata
    \/ update_comment

SpecSaver == Init /\ [][NextSaver]_vars

\* the engine whose caller also calls shutdown()
NextShutdown == Next \/ Shutdown

SpecShutdown == Init /\ [][NextShutdown]_vars

\* the engine whose caller starts, stops and shuts down; sync calls, which
\* touch nothing but self._last_sync_time, are left to Spec and SpecShutdown
NextTeardown == StartStop \/ Shutdown \/ Procedure \/ Engine

SpecTeardown == Init /\ [][NextTeardown]_vars

\* the engine whose caller starts runs and shuts the service down and never
\* calls stop() itself: every stop_experiment() is the one made by
\* _stop_current_experiment, so the status STOPPING always comes from a
\* shutdown() that found the run RUNNING
NextStartShutdown ==
    \/ \E d \in BOOLEAN : start_experiment_entry(d)
    \/ start_experiment_rejected
    \/ start_experiment_thread
    \/ start_experiment_failed
    \/ start_experiment_status
    \/ start_experiment_alloc
    \/ start_experiment_instance
    \/ start_experiment_init_raises
    \/ start_experiment_open_raises
    \/ start_experiment_schedule
    \/ stop_experiment_return
    \/ stop_experiment_status
    \/ stop_experiment_event
    \/ stop_experiment_cancel
    \/ Shutdown
    \/ Procedure
    \/ Engine

SpecStartShutdown == Init /\ [][NextStartShutdown]_vars

\* the engine with a consumer polling the data channel between the start
\* and stop calls of its caller; sync calls, which touch nothing but
\* self._last_sync_time, are left to Spec
NextChannel == StartStop \/ Procedure \/ Engine \/ data_queue_get

SpecChannel == Init /\ [][NextChannel]_vars

-----------------------------------------------------------------------------
(* Status callbacks.  _set_status runs on the thread that changes the       *)
(* status: the caller's for RUNNING and STOPPING, the loop's for ERROR and  *)
(* FINISHED.  obs.caller_cb and obs.loop_cb are the number of callbacks the *)
(* for loop of _notify_status_change has gone through on each thread; a     *)
(* callback is handed self.status as read when it is called (line 145).     *)

\* service.py 137-139
add_status_callback(s) == [s EXCEPT !.status_callbacks = @ + 1]

RECURSIVE registered(_, _)
\* add_status_callback called n times on the service s
registered(s, n) ==
    IF n = 0 THEN s ELSE add_status_callback(registered(s, n - 1))

\* the service constructed by a client that registers its callbacks before
\* the first start (gui/controller.py 116-117)
InitCallbacks ==
    /\ \E s \in {[status |-> IDLE,
                   debug_mode |-> FALSE,
                   experiment_active |-> FALSE,
                   last_error |-> NoError,
                   last_sync_time |-> FALSE,
                   data_queue |-> None,
                   stop_event |-> None,
                   steps_task |-> None,
                   loop |-> None,
                   data_saver |-> None,
                   experiment_logger_manager |-> FALSE,
                   current_experiment_instance |-> None,
                   status_callbacks |-> 0]} :
          self = registered(s, MaxCallbacks)
    /\ queue = <<>>
    /\ event = FALSE
    /\ csv = NoFile
    /\ run = 0
    /\ loops_running = {}
    /\ shutdown_threads = 0
    /\ cpc = "idle"
    /\ lifecycle = [pc |-> "none", exp |-> None, loop |-> None]
    /\ task = [pc |-> "none", result |-> "none"]
    /\ cancel_pending = FALSE
    /\ obs = [start_entry |-> IDLE, scheduled |-> 0,
              setup_attempted |-> FALSE, setup_raised |-> FALSE,
              teardowns |-> 0, teardown_raised |-> FALSE,
              produced |-> 0, steps_raised |-> FALSE,
              stop_called_k |-> -1, stop_k |-> -1, cancelled |-> FALSE,
              write_failed |-> FALSE, start_raised |-> FALSE,
              begun_early |-> FALSE, started_debug |-> FALSE,
              stop_seen |-> FALSE,
              prev_synced |-> FALSE,
              synced |-> FALSE, sync_t |-> "none",
              consumed |-> <<>>, in_shutdown |-> FALSE,
              caller_cb |-> 0, loop_cb |-> 0, callback_raised |-> FALSE]
    /\ experiment = NoExperiment
    /\ saver = NoSaver
    /\ process = NoProcess
    /\ recorder = NoRecorder

\* the statement after the _set_status call of start_experiment (service.py
\* 183) and of stop_experiment (257)
after_set_status_caller ==
    IF cpc = "start_notify" THEN "start_alloc" ELSE "stop_event"

\* the statement after the _set_status call of the except clause (service.py
\* 349) and of the finally block (361)
after_set_status_loop ==
    IF lifecycle.pc = "error_notify" THEN "finally" ELSE "clear"

\* service.py 143-145 on the caller's thread: the next callback is called
\* and returns
notify_status_change_caller ==
    /\ cpc \in {"start_notify", "stop_notify"}
    /\ IF obs.caller_cb + 1 < self.status_callbacks
       THEN /\ obs' = [obs EXCEPT !.caller_cb = @ + 1]
            /\ cpc' = cpc
       ELSE /\ obs' = [obs EXCEPT !.caller_cb = 0, !.callback_raised = FALSE]
            /\ cpc' = after_set_status_caller
    /\ UNCHANGED <<experiment, saver, process, recorder>>
    /\ UNCHANGED <<self, queue, event, csv, run, loops_running,
                   shutdown_threads, lifecycle, task, cancel_pending>>

\* notify_status_change_caller_raises without the try statement of lines
\* 144-147: the exception of the callback leaves the operation
notify_status_change_caller_propagates ==
    /\ cpc \in {"start_notify", "stop_notify"}
    /\ obs.caller_cb + 1 < self.status_callbacks
    /\ obs' = [obs EXCEPT !.caller_cb = 0, !.callback_raised = TRUE]
    /\ cpc' = "idle"
    /\ UNCHANGED <<experiment, saver, process, recorder>>
    /\ UNCHANGED <<self, queue, event, csv, run, loops_running,
                   shutdown_threads, lifecycle, task, cancel_pending>>

\* service.py 143-147 on the caller's thread: the next callback raises, the
\* exception is logged and the for loop goes on; a callback that is not the
\* last one (obs.callback_raised is looked at by the next one)
notify_status_change_caller_raises ==
    /\ cpc \in {"start_notify", "stop_notify"}
    /\ obs.caller_cb + 1 < self.status_callbacks
    /\ obs' = [obs EXCEPT !.caller_cb = @ + 1, !.callback_raised = TRUE]
    /\ cpc' = cpc
    /\ UNCHANGED <<experiment, saver, process, recorder>>
    /\ UNCHANGED <<self, queue, event, csv, run, loops_running,
                   shutdown_threads, lifecycle, task, cancel_pending>>

\* service.py 143-145 on the loop thread: the next callback is called and
\* returns
notify_status_change_loop ==
    /\ on_loop
    /\ lifecycle.pc \in {"error_notify", "finished_notify"}
    /\ IF obs.loop_cb + 1 < self.status_callbacks
       THEN /\ obs' = [obs EXCEPT !.loop_cb = @ + 1]
            /\ lifecycle' = lifecycle
       ELSE /\ obs' = [obs EXCEPT !.loop_cb = 0, !.callback_raised = FALSE]
            /\ lifecycle' = [lifecycle EXCEPT !.pc = after_set_status_loop]
    /\ UNCHANGED <<experiment, saver, process, recorder>>
    /\ UNCHANGED <<self, queue, event, csv, run, loops_running,
                   shutdown_threads, cpc, task, cancel_pending>>

\* service.py 143-147 on the loop thread: the next callback raises, the
\* exception is logged and the for loop goes on
notify_status_change_loop_raises ==
    /\ on_loop
    /\ lifecycle.pc \in {"error_notify", "finished_notify"}
    /\ obs.loop_cb + 1 < self.status_callbacks
    /\ obs' = [obs EXCEPT !.loop_cb = @ + 1, !.callback_raised = TRUE]
    /\ lifecycle' = lifecycle
    /\ UNCHANGED <<experiment, saver, process, recorder>>
    /\ UNCHANGED <<self, queue, event, csv, run, loops_running,
                   shutdown_threads, cpc, task, cancel_pending>>

StatusCallbacks ==
    \/ notify_status_change_caller
    \/ notify_status_change_caller_raises
    \/ notify_status_change_loop
    \/ notify_status_change_loop_raises

\* the start and stop calls and the lifecycle of a service whose client has
\* registered MaxCallbacks status callbacks
NextCallbacks == StartStop \/ Procedure \/ Engine \/ StatusCallbacks

SpecCallbacks == InitCallbacks /\ [][NextCallbacks]_vars

----------------------------------------------------------------------------
(* Properties                                                              *)

\* the lifecycle record describes the run accepted last
current_run == lifecycle.exp = run /\ run > 0

\* the _run_lifecycle coroutine of the current run has set its final status
\* (or has ended with the exception cleanup() raised)
run_ended == current_run /\ lifecycle.pc \in {"clear", "delay", "over", "raised"}

\* rows 0..n-1 in production order
RowsUpTo(n) == [i \in 1..n |-> i - 1]

AllowedEdges ==
    {<<IDLE, RUNNING>>, <<FINISHED, RUNNING>>, <<ERROR, RUNNING>>,
     <<RUNNING, STOPPING>>,
     <<RUNNING, FINISHED>>, <<RUNNING, ERROR>>,
     <<STOPPING, FINISHED>>, <<STOPPING, ERROR>>}

\* C1: the status changes only along the edges IDLE->RUNNING,
\* FINISHED->RUNNING, ERROR->RUNNING, RUNNING->STOPPING, RUNNING->FINISHED,
\* RUNNING->ERROR, STOPPING->FINISHED, STOPPING->ERROR, over any interleaving
\* of start, stop, sync and the lifecycle.
C1_StatusEdges ==
    [][self'.status # self.status
         => <<self.status, self'.status>> \in AllowedEdges]_vars

\* what a start call that was made while RUNNING must leave alone
StartRejectedFrame ==
    /\ self'.status = self.status
    /\ self'.data_queue = self.data_queue
    /\ self'.stop_event = self.stop_event
    /\ self'.current_experiment_instance = self.current_experiment_instance
    /\ self'.loop = self.loop
    /\ self'.experiment_active = self.experiment_active
    /\ UNCHANGED <<queue, event, run, loops_running, lifecycle, task>>
    /\ obs'.scheduled = obs.scheduled

\* C2: a start call made while the status is RUNNING is rejected: from its
\* first statement to its return it leaves status, data channel, stop flag
\* and procedure instance as they are, creates no thread and schedules no
\* lifecycle.
C2_StartWhileRunning ==
    [][/\ (cpc = "idle" /\ cpc' \in {"start_rejected", "start_thread"}
           /\ self.status = RUNNING)
          => (cpc' = "start_rejected" /\ StartRejectedFrame)
       /\ (cpc = "start_rejected" /\ cpc' # cpc)
          => (cpc' = "idle" /\ StartRejectedFrame)]_vars

\* a start call is being rejected while a run has rows on its channel
C2_Witness ==
    /\ cpc = "start_rejected"
    /\ self.status = RUNNING
    /\ current_run
    /\ Len(queue) > 0

\* C3 as stated: every start call made while the status is IDLE, FINISHED
\* or ERROR is accepted, whenever it is made after the previous run became
\* terminal.
C3_StartAccepted ==
    ~(cpc = "start_failed" /\ obs.start_entry \in {IDLE, FINISHED, ERROR})

\* C3: a start call made while the status is IDLE, FINISHED or ERROR gets
\* past the status check, and is accepted exactly when no experiment thread
\* is active any more; an accepted call creates a fresh loop thread, clears
\* the last error, moves the status to RUNNING, creates a fresh empty
\* channel and a fresh unset stop flag and, unless constructing the
\* procedure or opening the row file raises, schedules the lifecycle of the
\* new run on the new loop.  A refused call changes none of these.
C3_StartAcceptedWhenReleased ==
    [][/\ (cpc = "idle" /\ cpc' \in {"start_rejected", "start_thread"}
           /\ self.status \in {IDLE, FINISHED, ERROR})
          => cpc' = "start_thread"
       /\ (cpc = "start_thread" /\ cpc' # cpc)
          => IF self.experiment_active
             THEN /\ cpc' = "start_failed"
                  /\ UNCHANGED <<self, queue, event, run, loops_running,
                                 lifecycle, task>>
             ELSE /\ cpc' = "start_status"
                  /\ run' = run + 1
                  /\ self'.loop = run'
                  /\ self'.loop \notin loops_running
                  /\ self'.loop \in loops_running'
                  /\ self'.experiment_active
       /\ (cpc = "start_failed" /\ cpc' # cpc)
          => /\ cpc' = "idle"
             /\ UNCHANGED <<self, queue, event, run, loops_running,
                            lifecycle, task>>
       /\ (cpc = "start_status" /\ cpc' # cpc)
          => /\ cpc' = "start_alloc"
             /\ self'.status = RUNNING
             /\ self'.last_error = NoError
       /\ (cpc = "start_alloc" /\ cpc' # cpc)
          => /\ cpc' = "start_instance"
             /\ self'.data_queue = run /\ self.data_queue # run
             /\ self'.stop_event = run /\ self.stop_event # run
             /\ queue' = <<>>
             /\ event' = FALSE
       /\ (cpc = "start_instance" /\ cpc' # cpc)
          => \/ cpc' = "start_schedule"
                  /\ self'.current_experiment_instance = run
             \/ cpc' = "idle" /\ UNCHANGED <<lifecycle, task, queue, event>>
       /\ (cpc = "start_schedule" /\ cpc' # cpc)
          => /\ cpc' = "idle"
             /\ lifecycle' = [pc |-> "scheduled", exp |-> run,
                              loop |-> self.loop]
             /\ self.loop = run
             /\ obs'.scheduled = obs.scheduled + 1
             /\ self'.status = self.status
             /\ queue' = queue /\ event' = event]_vars

\* a second run has been accepted after the first one ended and was
\* stopped: status RUNNING, empty channel, unset flag, lifecycle scheduled
C3_Witness ==
    /\ cpc = "idle"
    /\ run = 2
    /\ lifecycle = [pc |-> "scheduled", exp |-> 2, loop |-> 2]
    /\ self.status = RUNNING
    /\ self.last_error = NoError
    /\ queue = <<>>
    /\ ~event

\* C4: stop() called while the status is not RUNNING changes nothing; called
\* while RUNNING it sets STOPPING, sets the stop flag and requests the
\* cancellation of the step task that is in flight, and none of its
\* statements waits for the run.
C4_Stop ==
    /\ [][/\ (cpc = "idle" /\ cpc' \in {"stop_return", "stop_status"})
             => /\ cpc' = (IF self.status = RUNNING
                           THEN "stop_status" ELSE "stop_return")
                /\ UNCHANGED <<self, event, cancel_pending, task>>
          /\ (cpc = "stop_return" /\ cpc' # cpc)
             => /\ cpc' = "idle"
                /\ UNCHANGED <<self, event, cancel_pending, task>>
          /\ (cpc = "stop_status" /\ cpc' # cpc)
             => /\ cpc' = "stop_event"
                /\ self'.status = STOPPING
          /\ (cpc = "stop_event" /\ cpc' # cpc)
             => /\ cpc' = "stop_cancel"
                /\ event'
          /\ (cpc = "stop_cancel" /\ cpc' # cpc)
             => /\ cpc' = "idle"
                /\ steps_task_in_flight(self) => cancel_pending'
                /\ UNCHANGED task]_vars
    /\ [](cpc \in {"stop_return", "stop_status", "stop_event", "stop_cancel"}
            => ENABLED (stop_experiment_return \/ stop_experiment_status
                        \/ stop_experiment_event \/ stop_experiment_cancel))

\* stop() has returned from a run whose step task was waiting: STOPPING,
\* flag set, cancellation queued
C4_Witness ==
    /\ cpc = "idle"
    /\ self.status = STOPPING
    /\ event
    /\ cancel_pending
    /\ task.pc \in {"suspended", "blocked"}

\* C5: teardown is executed exactly once per run whose lifecycle begins,
\* whichever way the run ends, never twice and never before setup was
\* attempted.
C5_TeardownOnce ==
    /\ obs.teardowns <= 1
    /\ obs.teardowns = 1 => obs.setup_attempted
    /\ current_run =>
         /\ lifecycle.pc \in {"scheduled", "setup", "spawn", "await",
                              "except", "error", "finally"}
              => obs.teardowns = 0
         /\ lifecycle.pc \in {"cleanup", "raised", "cleanup_data_saving",
                              "finished", "clear", "delay", "over"}
              => obs.teardowns = 1

\* a run whose step task was cancelled by stop() has been torn down
C5_Witness ==
    /\ run_ended
    /\ obs.cancelled
    /\ obs.teardowns = 1

\* C6: after a failure raised inside teardown the run is still finalized:
\* row writer and per-run logging closed, status FINISHED unless already
\* ERROR, thread shutdown scheduled.
C6_TeardownFailureSwallowed ==
    (current_run /\ obs.teardown_raised /\ lifecycle.pc \notin {"cleanup"})
      => /\ self.data_saver = None
         /\ ~self.experiment_logger_manager
         /\ self.status \in {FINISHED, ERROR}
         /\ lifecycle.pc \in {"delay", "over"}

\* stop() has set the flag of the current run before the step task exists
stopped_before_steps ==
    /\ current_run
    /\ lifecycle.pc \in {"scheduled", "setup"}
    /\ event

\* C7: start followed immediately by stop (stop may arrive before setup has
\* finished and before the step task exists) eventually reaches FINISHED,
\* and no row file is ever without its header.  (Runs in which the
\* procedure itself raises are left out of the statement.)
C7_StartStop ==
    /\ (stopped_before_steps /\ run = 1)
         ~> (\/ self.status = FINISHED
             \/ self.last_error # NoError
             \/ obs.setup_raised \/ obs.steps_raised \/ obs.teardown_raised)
    /\ [](csv.open => csv.header)

\* C8: when stop() is called after row k was produced, while the procedure
\* is suspended between rows (and neither its step production nor its
\* teardown raises), the run finishes FINISHED with no last error and the
\* row file holds at most rows 0..k.
C8_StopAfterRow ==
    (run_ended /\ cpc = "idle" /\ obs.stop_called_k >= 1 /\ ~obs.steps_raised
     /\ ~obs.teardown_raised)
      => /\ self.status = FINISHED
         /\ self.last_error = NoError
         /\ Len(csv.rows) <= obs.stop_k

\* C9: if step production raises while producing row k, the run ends with
\* status ERROR, a non-null last error, exactly rows 0..k-1 persisted and
\* teardown run, whatever the caller does concurrently.  (Runs whose
\* teardown raises are left out of the statement.)
C9_StepRaise ==
    (run_ended /\ obs.steps_raised /\ ~obs.teardown_raised)
      => /\ self.status = ERROR
         /\ self.last_error # NoError
         /\ csv.header => csv.rows = RowsUpTo(obs.produced)
         /\ obs.teardowns = 1

\* C10: if setup() raises, the exception is captured as the last error and
\* the lifecycle moves the status to ERROR; the step task of that run is
\* never created, no row is persisted or enqueued, and teardown runs once.
C10_SetupRaise ==
    /\ []((current_run /\ obs.setup_raised)
            => /\ self.steps_task # lifecycle.exp
               /\ task.pc = "none"
               /\ obs.produced = 0
               /\ csv.rows = <<>>
               /\ queue = <<>>
               /\ obs.teardowns <= 1
               /\ lifecycle.pc \in {"finally", "cleanup", "raised",
                                    "cleanup_data_saving", "finished",
                                    "clear", "delay", "over"}
                    => self.last_error # NoError
               /\ lifecycle.pc \in {"cleanup", "raised",
                                    "cleanup_data_saving", "finished",
                                    "clear", "delay", "over"}
                    => obs.teardowns = 1)
    /\ [][(current_run /\ obs.setup_raised /\ lifecycle.pc = "error"
           /\ lifecycle'.pc # lifecycle.pc)
            => (self'.status = ERROR /\ self'.last_error # NoError
                /\ lifecycle'.pc = "finally")]_vars

\* a run whose setup raised has been torn down and has ended
C10_Witness ==
    /\ run_ended
    /\ obs.setup_raised
    /\ obs.teardowns = 1
    /\ lifecycle.pc = "over"
    /\ self.status = ERROR

\* C11: in a non-debug run a failed write of a row is fatal: the step loop
\* ends there with the exception (no row is put or produced afterwards) and
\* the run ends with status ERROR and the failure in get_last_error().
C11_WriteFailureFatal ==
    (current_run /\ obs.write_failed) =>
        /\ task.pc = "done"
        /\ Len(queue) + Len(obs.consumed) < obs.produced
        /\ run_ended => self.status = ERROR /\ self.last_error # NoError

\* rows in production order without repetition
InProductionOrder(rows) ==
    /\ \A i \in DOMAIN rows : rows[i] \in 0..(obs.produced - 1)
    /\ \A i, j \in DOMAIN rows : i < j => rows[i] < rows[j]

\* C12: within a run, the rows a consumer has taken from the data channel
\* followed by the rows still waiting in it, and the data rows of the row
\* file, are each in the order the procedure produced them, no row twice.
C12_RowOrder ==
    current_run =>
        /\ InProductionOrder(obs.consumed \o queue)
        /\ InProductionOrder(csv.rows)

\* two rows produced and written, the first taken by the consumer, the
\* second waiting
C12_Witness ==
    /\ current_run
    /\ obs.produced = 2
    /\ obs.consumed = <<0>>
    /\ queue = <<1>>
    /\ csv.rows = <<0, 1>>

\* the step loop stamps the row it has just received (service.py 295-300)
row_stamped == task.pc = "item" /\ task'.pc = "persist"

\* C17: once a sync() call made while the status was RUNNING has returned,
\* whether before or after the lifecycle began on the loop thread, every row
\* stamped afterwards in that run carries the time elapsed since a sync,
\* never the sentinel.
C17_SyncedRows ==
    [][(current_run /\ obs.synced /\ row_stamped)
       => obs'.sync_t = "elapsed"]_vars

\* C18: in a run in which no sync() call has recorded a time, every row is
\* stamped with the sentinel -1, also when the previous run on this service
\* was synced.
C18_UnsyncedRows ==
    [][(current_run /\ ~obs.synced /\ row_stamped)
       => obs'.sync_t = "sentinel"]_vars

\* the second run, never synced, is working on a row that carries the
\* sentinel; the first run left a sync reference on the service
C18_Witness ==
    /\ current_run
    /\ run = 2
    /\ obs.prev_synced
    /\ ~obs.synced
    /\ cpc = "idle"
    /\ task.pc = "put"
    /\ obs.sync_t = "sentinel"

\* what a sync() call that does nothing leaves alone
SyncNoOpFrame ==
    /\ self'.last_sync_time = self.last_sync_time
    /\ UNCHANGED <<self, queue, event, csv, run, loops_running,
                   shutdown_threads, lifecycle, task, cancel_pending, obs>>

\* C19: a sync() call made while the status is IDLE, STOPPING, FINISHED or
\* ERROR returns without recording anything: the attributes of the service,
\* the sync reference among them, and everything else but the position of the
\* caller are as before, so no later row is stamped differently.
C19_SyncNoOp ==
    [][/\ (cpc = "idle" /\ cpc' \in {"sync_record", "sync_return"}
                         /\ self.status # RUNNING)
          => (cpc' = "sync_return" /\ SyncNoOpFrame)
       /\ (cpc = "sync_return" /\ cpc' # cpc)
          => (cpc' = "idle" /\ SyncNoOpFrame)]_vars

\* a sync() call is returning as a no-op while the run is being stopped and
\* a sync reference recorded earlier in the run is in place
C19_Witness ==
    /\ cpc = "sync_return"
    /\ current_run
    /\ self.status = STOPPING
    /\ self.last_sync_time
    /\ obs.synced

\* C13: at most one run is active per service: over any sequence of start,
\* stop, sync and shutdown calls, the lifecycle of a run never begins on the
\* loop thread when the run before it has begun and has not got through
\* its teardown.
C13_OneRunAtATime ==
    ~(current_run /\ obs.begun_early /\ lifecycle.pc # "scheduled")

\* the await exp.cleanup() of the current lifecycle has returned
teardown_completed ==
    lifecycle.pc \in {"cleanup_data_saving", "finished", "clear", "delay",
                      "over"}

\* _set_status reports status s to the callbacks in this step
status_reported(s) == self'.status # self.status /\ self'.status = s

C15_ConfigErrorLeavesIdle ==
    (obs.start_raised /\ cpc = "idle") =>
        /\ self.status # RUNNING
        /\ self.loop \notin loops_running
        /\ ~self.experiment_active

\* C16: constructing a procedure from a mapping that lacks a declared
\* parameter fails with a configuration error, and no instance comes out of
\* the constructor with a declared parameter still holding its field
\* descriptor.
C16_MissingParameterFails ==
    /\ (experiment.fields \ DOMAIN experiment.options # {})
          => experiment.raised
    /\ ~experiment.raised
          => \A n \in experiment.fields : experiment.attrs[n] # OptionField

\* C20: debug mode changes only persistence.  The step loop differs between
\* the two modes in one statement, the one that persists the row it has
\* stamped; the runs of the two modes show the same status changes and the
\* same rows on the channel when that statement, in either mode, leaves the
\* status and the channel alone and the loop goes on to put the row.
C20_PersistenceOnly ==
    [][(current_run /\ task.pc = "persist" /\ task'.pc # task.pc)
       => /\ task'.pc = "put"
          /\ self'.status = self.status
          /\ queue' = queue]_vars

\* service.py 302-310: the step loop calls data_saver.write_data(data)
write_data_called ==
    /\ task.pc = "persist" /\ task'.pc = "put"
    /\ ~self.debug_mode
    /\ self.data_saver # None

\* C21: in a run started with debug_mode true there is, from the start call
\* on, no row file (never opened, no header), no metadata sidecar, no data
\* saver and no per-run log file handlers, and the step loop makes no
\* write_data call, whatever debug_mode a later rejected start leaves behind.
C21_DebugRunPersistsNothing ==
    /\ [](obs.started_debug =>
            /\ csv = NoFile
            /\ self.data_saver = None
            /\ ~self.experiment_logger_manager)
    /\ [][obs.started_debug => ~write_data_called]_vars

\* a debug-mode run has put a row on the channel and is going on
C21_Witness ==
    /\ current_run
    /\ obs.started_debug
    /\ Len(queue) > 0
    /\ task.pc = "running"
    /\ csv = NoFile

\* a callback is called on the caller's thread, on the loop thread
callback_called_caller ==
    /\ cpc \in {"start_notify", "stop_notify"}
    /\ (cpc' # cpc \/ obs'.caller_cb # obs.caller_cb)

callback_called_loop ==
    /\ lifecycle.pc \in {"error_notify", "finished_notify"}
    /\ (lifecycle'.pc # lifecycle.pc \/ obs'.loop_cb # obs.loop_cb)

\* C22: every callback invocation made for a status change hands the
\* callback the status that change has set (RUNNING in start, STOPPING in
\* stop, ERROR in the except clause, FINISHED in the finally block), so that
\* a callback receives the statuses the engine went through, in order.
C22_NotifiedWithNewStatus ==
    [][/\ callback_called_caller =>
            self.status = (IF cpc = "start_notify" THEN RUNNING ELSE STOPPING)
       /\ callback_called_loop =>
            self.status = (IF lifecycle.pc = "error_notify" THEN ERROR
                           ELSE FINISHED)]_vars

\* C23: a status callback that raises changes nothing: whether the callback
\* called returns or raises, the status stays as set, the for loop goes on to
\* the next registered callback, and after the last one the operation goes on
\* with the statement that follows its _set_status call.
C23_CallbackExceptionCaught ==
    [][/\ callback_called_caller =>
            /\ self' = self
            /\ IF obs.caller_cb + 1 < self.status_callbacks
               THEN cpc' = cpc /\ obs'.caller_cb = obs.caller_cb + 1
               ELSE cpc' = after_set_status_caller /\ obs'.caller_cb = 0
       /\ callback_called_loop =>
            /\ self' = self
            /\ IF obs.loop_cb + 1 < self.status_callbacks
               THEN /\ lifecycle'.pc = lifecycle.pc
                    /\ obs'.loop_cb = obs.loop_cb + 1
               ELSE /\ lifecycle'.pc = after_set_status_loop
                    /\ obs'.loop_cb = 0]_vars

\* the first callback raised while stop_experiment notified STOPPING, and the
\* for loop is at the next callback
C23_Witness ==
    /\ cpc = "stop_notify"
    /\ obs.callback_raised
    /\ obs.caller_cb > 0
    /\ obs.caller_cb < self.status_callbacks

\* C24: in a run started without debug mode, the row file header and the
\* metadata sidecar have been written whenever a row of the run has been
\* persisted or is on the data channel.
C24_MetadataBeforeRows ==
    (current_run /\ ~obs.started_debug
       /\ (Len(csv.rows) > 0 \/ Len(queue) > 0))
    => (csv.header /\ csv.metadata)

\* C25: once the metadata sidecar of a run has been written, no later
\* operation, a comment edit through update_comment included, changes it.
C25_MetadataWrittenOnce ==
    [][saver.metadata # NoMetadata => saver'.metadata = saver.metadata]_vars

\* the value a line holds for the header name k of the row mapping d
field(d, k) == IF k \in DOMAIN d THEN d[k] ELSE ""

\* C26: the row file has its header exactly once, as its first line:
\* start_writing on a saver whose file is open leaves the file and the handle
\* as they are, and the file is always empty (never opened) or one header
\* line followed by lines that are not the header, a write_data call on an
\* open file adding one line at the end.
C26_HeaderOnce ==
    /\ [][(saver'.called = "start_writing" /\ saver.csv_file)
          => (saver'.csv = saver.csv /\ saver'.csv_file)]_vars
    /\ [][(saver'.called = "write_data" /\ saver.csv_file)
          => (/\ Len(saver'.csv) = Len(saver.csv) + 1
              /\ SubSeq(saver'.csv, 1, Len(saver.csv)) = saver.csv)]_vars
    /\ [](saver.csv # <<>> =>
            /\ saver.csv[1] = headers(saver.columns)
            /\ \A i \in 2..Len(saver.csv) :
                  saver.csv[i] # headers(saver.columns))

\* start_writing has been called on a saver whose file was open and held a
\* row: header and row are still there
C26_Witness ==
    /\ saver.called = "start_writing"
    /\ saver.csv_file
    /\ Len(saver.csv) = 2

\* C27: the line write_data adds for a row mapping has one field for each of
\* t, sync_t, time and each declared column, in this order; a field holds the
\* value of the row under that name, or is empty when the row has no such
\* key; keys of the row outside the header add nothing.
C27_RowInHeaderOrder ==
    [][(saver'.called = "write_data" /\ saver.csv_file) =>
          LET line == saver'.csv[Len(saver'.csv)]
              d == saver'.data
              columns == saver.columns
          IN /\ Len(saver'.csv) = Len(saver.csv) + 1
             /\ Len(line) = 3 + Len(columns)
             /\ line[1] = field(d, "t")
             /\ line[2] = field(d, "sync_t")
             /\ line[3] = field(d, "time")
             /\ \A j \in 1..Len(columns) :
                   line[3 + j] = field(d, columns[j])]_vars

\* a row without t and without the declared column b, holding the key x the
\* header does not have, has been written under the header t, sync_t, time,
\* a, b
C27_Witness ==
    /\ saver.called = "write_data"
    /\ saver.columns = <<"a", "b">>
    /\ DOMAIN saver.data = {"sync_t", "time", "a", "x"}
    /\ saver.csv = <<headers(saver.columns), <<"", "-1", "12:00", "va", "">> >>

\* service.py 375, data_saver.py 199-209: stop_writing is called on the
\* writer of the row file
stop_writing_called == csv.open /\ csv'.header /\ ~csv'.open

\* C28: the step loop calls write_data only on the writer its own run has
\* opened and that is still open, and a writer is closed only when the step
\* task of its run has ended (or was never created); this in every
\* interleaving of start, stop, shutdown and the lifecycle.
C28_NoWriteAfterClose ==
    /\ [][write_data_called =>
            (csv.open /\ self.data_saver = lifecycle.exp)]_vars
    /\ [][stop_writing_called =>
            (/\ task.pc \in {"none", "done"}
             /\ self.data_saver = lifecycle.exp
             /\ self'.data_saver = None)]_vars

\* the second run has closed its writer after writing rows; the first run's
\* writer was closed before it
C28_Witness ==
    /\ run = 2
    /\ current_run
    /\ ~obs.started_debug
    /\ csv.header /\ ~csv.open
    /\ Len(csv.rows) = MaxRows
    /\ self.data_saver = None
    /\ task.pc = "done"

\* attributes of the service that start_experiment, stop_experiment or sync
\* read or write on the caller's thread: status (service.py 167, 180, 252,
\* 256, 266), _last_error (179), _last_sync_time (278), debug_mode (166),
\* _experiment_active (79, 93), _steps_task (259), loop (90, 204, 259)
CallerAttributes ==
    {"status", "last_error", "last_sync_time", "debug_mode",
     "experiment_active", "steps_task", "loop"}

\* C29: apart from the data channel and the stop flag, no attribute of the
\* service that the caller's thread reads or writes is written by another
\* thread: a step that is not the caller's (the loop thread's, the shutdown
\* helper's) leaves every such attribute as it is.
C29_OnlyChannelAndFlagShared ==
    [][cpc' = cpc => \A a \in CallerAttributes : self'[a] = self[a]]_vars

\* service.py 290-292: the step loop of the current run has taken the break
stopped_early == current_run /\ obs.stop_seen

\* C30: when the step loop receives an item and finds the stop flag set, it
\* ends at once and without an exception, leaving the row file, the data
\* channel and the service as they are; from then on, in that run, no item is
\* produced, persisted or put, no error is recorded, and the lifecycle goes
\* from its await to the finally block, not to the except clause.
C30_StopFlagEndsLoop ==
    /\ [][(task.pc = "item" /\ event /\ task'.pc # "item")
          => (/\ task' = [pc |-> "done", result |-> "ok"]
              /\ csv' = csv /\ queue' = queue /\ self' = self)]_vars
    /\ [][(stopped_early /\ run' = run)
          => (/\ obs'.produced = obs.produced
              /\ queue' = queue
              /\ csv'.rows = csv.rows)]_vars
    /\ [][(stopped_early /\ lifecycle.pc = "await" /\ lifecycle'.pc # "await")
          => lifecycle'.pc = "finally"]_vars
    /\ [](stopped_early =>
            /\ task.pc = "done" /\ task.result \in {"ok", "taken"}
            /\ Len(queue) = obs.produced - 1
            /\ (csv.header => Len(csv.rows) < obs.produced)
            /\ self.last_error = NoError /\ self.status # ERROR)

\* the loop has dropped the item it received after stop, teardown has run
\* and the run has been reported FINISHED
C30_Witness ==
    /\ stopped_early
    /\ event
    /\ lifecycle.pc = "clear"
    /\ self.status = FINISHED
    /\ obs.teardowns = 1

\* C31: once a run has reached FINISHED or ERROR, the thread-active flag of
\* the service is eventually cleared (the delayed shutdown has run), so that
\* a later start can be accepted.
C31_ThreadReleased ==
    (current_run /\ self.status \in {FINISHED, ERROR})
        ~> ~self.experiment_active

\* C32: constructing an option-bearing analysis class with a mapping that
\* holds every option get_options returns gives an instance with each option
\* set to the value of the mapping and the mapping kept as kwargs; a mapping
\* that lacks one of them raises ValueError; get_options returns the explicit
\* options dict when the class defines one and the declared option fields
\* otherwise.
C32_OptionsInjected ==
    process.made =>
        /\ process.got = (IF process.explicit THEN process.options
                          ELSE process.declared)
        /\ process.raised <=> (process.got \ DOMAIN process.kwargs # {})
        /\ ~process.raised =>
              \A n \in process.got : process.attrs[n] = process.kwargs[n]

\* an instance made from a mapping that holds both declared options and a
\* name the class does not declare
C32_Witness ==
    /\ process.made /\ ~process.raised
    /\ ~process.explicit
    /\ process.declared = {1, 2}
    /\ DOMAIN process.kwargs = {1, 2, 3}
    /\ process.attrs[1] = process.kwargs[1]

\* C33: whether the rows of a run are persisted is fixed by the start call
\* that was accepted for it: at the persist statement of the step loop a run
\* started in debug mode goes on to put the row without touching the row
\* file, a run started without it appends the row to its file and goes on to
\* put it, and in neither case does the step task end there with an error,
\* whatever start calls were rejected in between.
C33_ModeFixedAtStart ==
    [][(current_run /\ task.pc = "persist" /\ task'.pc # "persist")
       => /\ task'.pc = "put"
          /\ csv' = (IF obs.started_debug THEN csv
                     ELSE [csv EXCEPT !.rows = Append(@, current_row)])]_vars

\* C34: the loop a run's lifecycle was submitted to is the loop of that
\* run's own thread, and it keeps running until that lifecycle has got
\* through its delayed shutdown: the helper thread of an earlier run never
\* stops it.
C34_ShutdownStopsOwnLoop ==
    (current_run /\ lifecycle.pc # "over") =>
        /\ lifecycle.loop = run
        /\ lifecycle.loop \in loops_running

\* C35: when a run has ended, its status is ERROR if and only if an error
\* has been captured (get_last_error() is not None).
C35_StatusAgreesWithError ==
    run_ended => (self.status = ERROR <=> self.last_error # NoError)

\* the rows of the current run that have been put on the data channel:
\* those a consumer has taken followed by those still waiting
delivered == obs.consumed \o queue

\* C36: in a run started in non-debug mode every row on, or already taken
\* from, the data channel has been passed to write_data before: it is a
\* data row of the row file, and the rows put never outnumber the rows
\* written.
C36_PersistBeforeDeliver ==
    (current_run /\ ~obs.started_debug) =>
        /\ \A i \in DOMAIN delivered :
               \E j \in DOMAIN csv.rows : csv.rows[j] = delivered[i]
        /\ Len(delivered) <= Len(csv.rows)

\* C37: whenever the status is RUNNING, the data channel and the stop flag
\* the service refers to are the ones allocated for the run accepted last,
\* also while start is invoking the status callbacks.
C37_FreshChannelWhenRunning ==
    self.status = RUNNING =>
        /\ self.data_queue = run
        /\ self.stop_event = run

\* C38: when stop() has set the stop flag of the current run before the
\* procedure produced a row -- as it does when it is called while setup()
\* is in progress -- no row of the run is persisted or put on the data
\* channel: the step loop ends at the first item it receives.
C38_StopDuringSetupNoRows ==
    (current_run /\ obs.stop_k = 0) =>
        /\ Len(csv.rows) = 0
        /\ delivered = <<>>
        /\ obs.produced <= 1
        /\ task.pc \notin {"persist", "put"}

\* stop() returned without a cancellation, setup() completed, the task
\* was created, its loop dropped the first item and teardown has run
C38_Witness ==
    /\ current_run
    /\ cpc = "idle"
    /\ obs.stop_k = 0
    /\ obs.setup_attempted
    /\ ~obs.setup_raised
    /\ ~obs.cancelled
    /\ ~cancel_pending
    /\ self.steps_task = run
    /\ obs.produced = 1
    /\ obs.stop_seen
    /\ obs.teardowns = 1
    /\ teardown_completed

\* C39: when shutdown() has found a run RUNNING and has stopped the loop of
\* that run, the teardown of the run has been executed, its row file is
\* closed and its status is FINISHED or ERROR, not STOPPING.  (Runs whose
\* teardown raises are left out of the statement.)
C39_ShutdownRunsTeardown ==
    (current_run /\ lifecycle.pc # "scheduled" /\ ~obs.teardown_raised
     /\ obs.stop_k >= 0 /\ lifecycle.loop \notin loops_running)
      => /\ obs.teardowns >= 1
         /\ ~csv.open
         /\ self.status \in {FINISHED, ERROR}

\* C40: preview and recording of a VideoRecorder stop independently: while
\* is_previewing is true the preview loop is running (and delivers frames),
\* whatever stop_recording does, and while
\* is_recording is true the recording loop is running, whatever
\* stop_preview does.
C40_IndependentStop ==
    /\ recorder.is_previewing => recorder.preview_thread = "running"
    /\ recorder.is_recording => recorder.recording_thread = "running"

====
